---- MODULE Spec2Model ----
(***************************************************************************)
(* debthin: the Cloudflare worker (src/worker/index.js) that serves a      *)
(* curated apt index from an R2 bucket, the signing scripts                *)
(* (src/scripts/sign_all.sh, src/scripts/sign.sh) that checksum what the   *)
(* worker derives at serve time, and the rebuild script that fetches,      *)
(* filters, signs, validates and uploads the tree.                         *)
(*                                                                         *)
(* Strings are sequences of tokens.  "/" and "\n" are tokens of their own, *)
(* so split, join, trimEnd, startsWith, endsWith and string concatenation  *)
(* are computed as the code computes them.  A token such as "trixie" or    *)
(* "Origin:" stands for that run of characters; a digest token ("d1")      *)
(* stands for 64 lower-case hex digits.                                    *)
(***************************************************************************)
EXTENDS Integers, Sequences, FiniteSets, TLC

VARIABLES
    \* ---- worker: one request against the bucket ----
    req,        \* the inbound request: [scheme, path, search]
    bucket,     \* R2 bucket: key -> object, keys absent from DOMAIN are not stored
    pc,         \* position of the fetch handler
    distro,     \* fetch: let distro
    suitePath,  \* fetch: const suitePath
    rule,       \* which branch of the cascade answered
    fetched,    \* the r2Get calls made so far: <<[key, hit]>>
    relPath,    \* by-hash: index[sha256], kept across the second await
    resp,       \* the Response returned
    prevRule,   \* the branch that answered this request before the bucket was republished
    others,     \* the other invocations of fetch: suspended at an await, or returned
    \* ---- resolveAliases called on its own ----
    aliasIn,    \* [distro, path]
    aliasOut,   \* results of applying resolveAliases once, then again
    \* ---- inReleaseToRelease called on its own ----
    text,       \* the stored InRelease text
    release,    \* <<>> before the call, <<result>> after
    releaseFile, \* the Release file gen_release wrote and gpg signed (<<>>: none)
    \* ---- signing scripts over one dists/<suite> directory ----
    script,     \* "sign_all" or "sign"
    distDir,    \* [distro, suite, files]: the Packages.gz files found, in sort order
    loop,       \* which loop of the script is running
    idx,        \* index of the next file of that loop
    manifest,   \* entries appended to the SHA256 file so far
    \* ---- the rebuild script, from fetch to upload ----
    step,       \* position of the rebuild script
    cached,     \* cached/: suite -> is there a Packages.gz of the suite
    distOutput, \* dist_output/: suite -> [gz, release, inrelease]
    pool,       \* jobs of the last xargs pool: job -> "queued", "running", "ok", "failed"
    signed,     \* sign_all.sh phase B: the suites signed so far, in order
    exitOf,     \* exit status of each phase that has ended
    ERRORS,     \* validate.sh: ERRORS
    uploaded,   \* the suites r2_upload.py has put in the bucket
    phases      \* the phases begun so far, in order

vars == <<req, bucket, pc, distro, suitePath, rule, fetched, relPath, resp, prevRule,
          others, aliasIn, aliasOut, text, release, releaseFile, script, distDir, loop, idx, manifest,
          step, cached, distOutput, pool, signed, exitOf, ERRORS, uploaded, phases>>

workerVars == <<req, bucket, pc, distro, suitePath, rule, fetched, relPath, resp, prevRule,
                others>>
aliasVars  == <<aliasIn, aliasOut>>
stripVars  == <<text, release, releaseFile>>
signVars   == <<script, distDir, loop, idx, manifest>>
pipeVars   == <<step, cached, distOutput, pool, signed, exitOf, ERRORS, uploaded, phases>>

(***************************************************************************)
(* String primitives of JavaScript and bash, over token sequences.         *)
(***************************************************************************)

SLASH == "/"
NL    == "\n"

\* String.prototype.split(sep): always at least one part
RECURSIVE SplitFrom(_, _, _, _)
SplitFrom(s, sep, i, cur) ==
    IF i > Len(s) THEN <<cur>>
    ELSE IF s[i] = sep THEN <<cur>> \o SplitFrom(s, sep, i + 1, <<>>)
    ELSE SplitFrom(s, sep, i + 1, Append(cur, s[i]))

\* (the string is evaluated once, then split)
Split(s, sep) == CHOOSE parts \in {SplitFrom(str, sep, 1, <<>>) : str \in {s}} : TRUE

\* Array.prototype.join(sep)
RECURSIVE Join(_, _)
Join(parts, sep) ==
    CHOOSE str \in {IF Len(p) = 0 THEN <<>>
                    ELSE IF Len(p) = 1 THEN p[1]
                    ELSE p[1] \o <<sep>> \o Join(Tail(p), sep) : p \in {parts}} : TRUE

StartsWith(s, tok) == Len(s) >= 1 /\ s[1] = tok
EndsWith(s, tok)   == Len(s) >= 1 /\ s[Len(s)] = tok

WhiteSpace == {" ", NL, "\t", "\r"}

\* String.prototype.trimEnd()
RECURSIVE TrimEnd(_)
TrimEnd(s) ==
    IF Len(s) > 0 /\ s[Len(s)] \in WhiteSpace THEN TrimEnd(SubSeq(s, 1, Len(s) - 1))
    ELSE s

\* Array.prototype.findIndex, 1-based; 0 when nothing matches (JavaScript's -1)
RECURSIVE FindLineFrom(_, _, _)
FindLineFrom(lines, tok, i) ==
    IF i > Len(lines) THEN 0
    ELSE IF StartsWith(lines[i], tok) THEN i
    ELSE FindLineFrom(lines, tok, i + 1)

FindLine(lines, tok) == FindLineFrom(lines, tok, 1)

(***************************************************************************)
(* Module constants of the worker.                                         *)
(***************************************************************************)

UPSTREAMS == [debian |-> <<"deb.debian.org", SLASH, "debian">>,
              ubuntu |-> <<"archive.ubuntu.com", SLASH, "ubuntu">>]

DEBIAN_COMPONENTS == {"main", "contrib", "non-free", "non-free-firmware"}
UBUNTU_COMPONENTS == {"main", "restricted", "universe", "multiverse"}

DEBIAN_SUITE_ALIASES ==
    [stable |-> "trixie", oldstable |-> "bookworm", oldoldstable |-> "bullseye",
     testing |-> "forky"]
    @@ ("stable-updates" :> "trixie-updates")
    @@ ("oldstable-updates" :> "bookworm-updates")
    @@ ("oldoldstable-updates" :> "bullseye-updates")

UBUNTU_SUITE_ALIASES ==
       ("22.04" :> "jammy")   @@ ("22.04-updates" :> "jammy-updates")
    @@ ("22.04-backports" :> "jammy-backports")
    @@ ("24.04" :> "noble")   @@ ("24.04-updates" :> "noble-updates")
    @@ ("24.04-backports" :> "noble-backports")
    @@ ("25.04" :> "plucky")  @@ ("25.04-updates" :> "plucky-updates")
    @@ ("25.04-backports" :> "plucky-backports")
    @@ ("25.10" :> "questing") @@ ("25.10-updates" :> "questing-updates")
    @@ ("25.10-backports" :> "questing-backports")
    @@ ("lts" :> "noble")     @@ ("lts-updates" :> "noble-updates")
    @@ ("lts-backports" :> "noble-backports")
    @@ ("previous-lts" :> "jammy") @@ ("previous-lts-updates" :> "jammy-updates")
    @@ ("previous-lts-backports" :> "jammy-backports")
    @@ ("current" :> "plucky") @@ ("current-updates" :> "plucky-updates")
    @@ ("current-backports" :> "plucky-backports")
    @@ ("testing" :> "questing") @@ ("testing-updates" :> "questing-updates")
    @@ ("testing-backports" :> "questing-backports")

ARCHES == {"all", "amd64", "arm64", "armhf", "i386", "riscv64"}

components(d) == IF d = "ubuntu" THEN UBUNTU_COMPONENTS ELSE DEBIAN_COMPONENTS

(***************************************************************************)
(* resolveAliases.  aliases[parts[1]] is a JavaScript property read on an  *)
(* object literal: an own property if there is one, else whatever          *)
(* Object.prototype holds under that name, else undefined.                 *)
(***************************************************************************)

\* String(Object.prototype[name]) for the names an object literal inherits
ObjectPrototype ==
       ("constructor"    :> "function Object() { [native code] }")
    @@ ("toString"       :> "function toString() { [native code] }")
    @@ ("valueOf"        :> "function valueOf() { [native code] }")
    @@ ("hasOwnProperty" :> "function hasOwnProperty() { [native code] }")
    @@ ("__proto__"      :> "[object Object]")

Undefined == [t |-> "undefined", v |-> <<>>]

\* obj[key] where key is a string
PropertyGet(obj, key) ==
    IF Len(key) = 1 /\ key[1] \in DOMAIN obj
        THEN [t |-> "string", v |-> <<obj[key[1]]>>]
    ELSE IF Len(key) = 1 /\ key[1] \in DOMAIN ObjectPrototype
        THEN [t |-> "inherited", v |-> <<ObjectPrototype[key[1]]>>]
    ELSE Undefined

Truthy(x) == x.t # "undefined" /\ x.v # <<>>

\* a worker that consults the Debian table for every ecosystem
AliasesOfDebianOnly(d) == DEBIAN_SUITE_ALIASES

AliasesOf(d) == IF d = "ubuntu" THEN UBUNTU_SUITE_ALIASES ELSE DEBIAN_SUITE_ALIASES

\* a resolver that replaces an alias wherever it occurs in the path
resolveAliasesEverySegment(d, path) ==
    LET aliases == IF d = "ubuntu" THEN UBUNTU_SUITE_ALIASES ELSE DEBIAN_SUITE_ALIASES
        parts   == Split(path, SLASH)
    IN  Join([k \in 1..Len(parts) |->
                 IF Truthy(PropertyGet(aliases, parts[k]))
                 THEN PropertyGet(aliases, parts[k]).v ELSE parts[k]], SLASH)

resolveAliases(d, path) ==
    LET aliases == AliasesOf(d)
        parts   == Split(path, SLASH)
    IN  IF /\ parts[1] = <<"dists">>
           /\ Len(parts) >= 2
           /\ parts[2] # <<>>
           /\ Truthy(PropertyGet(aliases, parts[2]))
        THEN Join([parts EXCEPT ![2] = PropertyGet(aliases, parts[2]).v], SLASH)
        ELSE Join(parts, SLASH)

(***************************************************************************)
(* Content helpers of the worker.                                          *)
(***************************************************************************)

contentType(path) ==
    IF EndsWith(path, ".gz")        THEN "application/x-gzip"
    ELSE IF EndsWith(path, ".lz4")  THEN "application/x-lz4"
    ELSE IF EndsWith(path, ".xz")   THEN "application/x-xz"
    ELSE IF EndsWith(path, ".gpg")  THEN "application/pgp-keys"
    ELSE IF EndsWith(path, ".html") THEN "text/html; charset=utf-8"
    ELSE "text/plain; charset=utf-8"

CACHE_HEADERS == "public, max-age=3600"

ORIGIN    == "Origin:"
PGP_SIG   == "-----BEGIN PGP SIGNATURE-----"
PGP_BEGIN == "-----BEGIN PGP SIGNED MESSAGE-----"

\* a slice that takes the line at end as well
SliceLinesThroughEnd(lines, start, end) ==
    LET last == IF end = 0 THEN Len(lines) ELSE end
    IN  IF last < start THEN <<>> ELSE SubSeq(lines, start, last)

\* lines.slice(start, end) with the 1-based indexes of FindLine (0 = not found)
SliceLines(lines, start, end) ==
    LET last == IF end = 0 THEN Len(lines) ELSE end - 1
    IN  IF last < start THEN <<>> ELSE SubSeq(lines, start, last)

\* a strip that leaves the white space before the signature in place
inReleaseToReleaseNoTrim(t) ==
    LET lines == Split(t, NL)
        start == FindLine(lines, ORIGIN)
        end   == FindLine(lines, PGP_SIG)
    IN  IF start = 0 THEN t
        ELSE Join(SliceLines(lines, start, end), NL) \o <<NL>>

inReleaseToRelease(t) ==
    LET lines == Split(t, NL)
        start == FindLine(lines, ORIGIN)
        end   == FindLine(lines, PGP_SIG)
    IN  IF start = 0 THEN t
        ELSE TrimEnd(Join(SliceLines(lines, start, end), NL)) \o <<NL>>

\* String.prototype.replace(tok, ""): the first occurrence only
RECURSIVE RemoveFirst(_, _)
RemoveFirst(s, tok) ==
    IF Len(s) = 0 THEN s
    ELSE IF s[1] = tok THEN Tail(s)
    ELSE <<s[1]>> \o RemoveFirst(Tail(s), tok)

archReleaseBody(path) ==
    LET parts     == Split(path, SLASH)
        suite     == parts[2]
        component == parts[3]
        arch      == RemoveFirst(parts[4], "binary-")
    IN  <<"Archive: ">> \o suite \o <<NL>>
        \o <<"Component: ">> \o component \o <<NL>>
        \o <<"Architecture: ">> \o arch \o <<NL>>

(***************************************************************************)
(* gzip, as far as the worker and the scripts depend on it: a stream is a  *)
(* header, the payload and a trailer; anything else does not decode.       *)
(***************************************************************************)

GZ_MAGIC   == "<1f8b>"
GZ_TRAILER == "<crc32,isize>"

Gzip(content) == <<GZ_MAGIC>> \o content \o <<GZ_TRAILER>>

IsGzip(b) == Len(b) >= 2 /\ b[1] = GZ_MAGIC /\ b[Len(b)] = GZ_TRAILER

\* DecompressionStream("gzip") / gunzip -c on a valid stream
Gunzip(b) == SubSeq(b, 2, Len(b) - 1)

(***************************************************************************)
(* The by-hash index is JSON text: { "<digest>": "<relative path>", ... }  *)
(***************************************************************************)

QUOTE == "\""

\* the tokens of a JSON string starting at s[i] = QUOTE, up to the closing quote
RECURSIVE JsonStringEnd(_, _)
JsonStringEnd(s, i) ==
    IF i > Len(s) THEN 0
    ELSE IF s[i] = QUOTE THEN i
    ELSE JsonStringEnd(s, i + 1)

\* members of an object from s[i] on; [ok, map]
RECURSIVE JsonMembers(_, _, _)
JsonMembers(s, i, acc) ==
    IF i + 1 > Len(s) \/ s[i] # QUOTE THEN [ok |-> FALSE, map |-> acc]
    ELSE
    LET ke == JsonStringEnd(s, i + 1) IN
    IF ke = 0 \/ ke + 2 > Len(s) \/ s[ke + 1] # ":" \/ s[ke + 2] # QUOTE
        THEN [ok |-> FALSE, map |-> acc]
    ELSE
    LET ve == JsonStringEnd(s, ke + 3) IN
    IF ve = 0 \/ ke # i + 2 \/ ve + 1 > Len(s) THEN [ok |-> FALSE, map |-> acc]
    ELSE
    LET acc2 == (s[i + 1] :> SubSeq(s, ke + 3, ve - 1)) @@ acc IN
    IF s[ve + 1] = "}" /\ ve + 1 = Len(s) THEN [ok |-> TRUE, map |-> acc2]
    ELSE IF s[ve + 1] = "," THEN JsonMembers(s, ve + 2, acc2)
    ELSE [ok |-> FALSE, map |-> acc]

EmptyMap == [k \in {} |-> <<>>]

\* JSON.parse(text) for an object of strings; ok = FALSE is a SyntaxError
JsonParse(s) ==
    IF Len(s) < 2 \/ s[1] # "{" THEN [ok |-> FALSE, map |-> EmptyMap]
    ELSE IF Len(s) = 2 /\ s[2] = "}" THEN [ok |-> TRUE, map |-> EmptyMap]
    ELSE JsonMembers(s, 2, EmptyMap)

\* index[sha256] on the parsed object: the string, or undefined
IndexGet(index, sha256) ==
    IF sha256 \in DOMAIN index THEN [t |-> "string", v |-> index[sha256]]
    ELSE IF sha256 \in DOMAIN ObjectPrototype
        THEN [t |-> "inherited", v |-> <<ObjectPrototype[sha256]>>]
    ELSE Undefined

(***************************************************************************)
(* Requests and bucket contents the worker is run against.                 *)
(***************************************************************************)

Seg(tok) == <<tok>>
Path(segs) == Join(segs, SLASH)

\* largest number of segments between dists/<suite> and by-hash in a request
MaxMidSegs == 2

ReqSuites  == {"trixie", "stable", "constructor"}
ReqComponentArches == {<<"main", "amd64">>, <<"universe", "amd64">>, <<"main", "mips">>}
HexDigests == {"d1", "d2"}
ReqDigests == HexDigests \cup {"D1-not-hex"}

SuiteFiles == {<<"Release">>, <<"InRelease">>, <<"Release", ".gpg">>, <<"Contents">>}
ArchFiles  == {<<"Release">>, <<"Packages">>, <<"Packages", ".gz">>, <<"Packages", ".xz">>}

MidSegs == {<<"main">>, <<>>}
ByHashMids ==
    UNION {[1..n -> MidSegs] : n \in 0..MaxMidSegs}
    \cup {<<Seg("main"), <<"binary-", "amd64">>>>}

KEYRINGS == {<<"debthin-keyring", ".gpg">>, <<"debthin-keyring", "-binary", ".gpg">>}

Bodies ==
    {<<>>} \cup KEYRINGS
    \cup {Path(<<Seg("dists")>>), Path(<<Seg("dists"), Seg("trixie")>>),
          Path(<<Seg("dists"), <<>>, Seg("Release")>>),
          Path(<<Seg("pool"), Seg("main"), Seg("a"), Seg("apt"), <<"apt_2.6.1_amd64", ".deb">>>>),
          Path(<<Seg("pool"), Seg("stable"), Seg("Release")>>)}
    \cup {Path(<<Seg("dists"), Seg(s), f>>) : s \in ReqSuites, f \in SuiteFiles}
    \cup {Path(<<Seg("dists"), Seg(s), Seg(ca[1]), <<"binary-", ca[2]>>, f>>) :
            s \in ReqSuites, ca \in ReqComponentArches, f \in ArchFiles}
    \cup {Path(<<Seg("dists"), Seg(s)>> \o m \o <<Seg("by-hash"), Seg("SHA256"), Seg(d)>>) :
            s \in {"trixie", "stable"}, m \in ByHashMids, d \in ReqDigests}

RawPaths ==
    Bodies
    \cup {<<e>> : e \in {"debian", "ubuntu"}}
    \cup {<<e, SLASH>> \o b : e \in {"debian", "ubuntu"}, b \in Bodies}

Requests ==
    {[scheme |-> sc[1], path |-> <<SLASH>> \o raw, search |-> sc[2]] :
        raw \in RawPaths, sc \in {<<"https:", <<>>>>, <<"http:", <<"?a=1">>>>}}

NoObject == [present |-> FALSE, body |-> <<>>, contentType |-> ""]
Object(body, ctype) == [present |-> TRUE, body |-> body, contentType |-> ctype]

PackagesText == <<"Package: apt", NL, NL>>

InReleaseText ==
    <<PGP_BEGIN, NL, "Hash: SHA512", NL, NL,
      ORIGIN, " debthin", NL, "SHA256:", NL, " ", "d1", NL,
      PGP_SIG, NL, "AbCd", NL, "-----END PGP SIGNATURE-----", NL>>

PackagesGzRel == Path(<<Seg("main"), <<"binary-", "amd64">>, <<"Packages", ".gz">>>>)

IndexJson(digests) ==
    IF digests = {} THEN <<"{", "}">>
    ELSE LET d == CHOOSE x \in digests : TRUE
         IN  <<"{", QUOTE, d, QUOTE, ":", QUOTE>> \o PackagesGzRel \o <<QUOTE, "}">>

KeyIndexHtml  == <<"index", ".html">>
KeyKeyring    == <<"debthin-keyring", ".gpg">>
SuiteKey      == <<"debian", SLASH, "dists", SLASH, "trixie">>
KeyInRelease  == SuiteKey \o <<SLASH, "InRelease">>
KeyPackagesGz == SuiteKey \o <<SLASH>> \o PackagesGzRel
KeyPackages   == SubSeq(KeyPackagesGz, 1, Len(KeyPackagesGz) - 1)
KeyByHashIdx  == SuiteKey \o <<SLASH, "by-hash-index">>

\* what a published tree holds under each key (NoObject: nothing)
IndexHtmlObject   == Object(<<"<html>">>, "text/html")
KeyringObject     == Object(<<"<pgp public key>">>, "")
InReleaseObject   == Object(InReleaseText, "text/plain")
StrayPackages     == Object(<<"stale plain Packages">>, "")
PackagesGzChoices == {NoObject, Object(Gzip(PackagesText), "application/gzip"),
                      Object(<<GZ_MAGIC, "Pack">>, "")}
IndexChoices      == {NoObject, Object(IndexJson({"d1"}), ""), Object(IndexJson({}), ""),
                      Object(<<"{", QUOTE, "d1">>, "")}

Stored(key, obj) == IF obj.present THEN key :> obj ELSE EmptyMap

\* The trees the bucket is tried with.  The static files, InRelease and a
\* stray plain Packages are published together or not at all; Packages.gz and
\* the by-hash index vary on their own, so the objects one request reads occur
\* in every combination.
StorageStates ==
    {IF rest THEN tree @@ (KeyIndexHtml :> IndexHtmlObject) @@ (KeyKeyring :> KeyringObject)
                       @@ (KeyInRelease :> InReleaseObject) @@ (KeyPackages :> StrayPackages)
             ELSE tree :
        tree \in {Stored(KeyPackagesGz, gz) @@ Stored(KeyByHashIdx, ix) :
                    gz \in PackagesGzChoices, ix \in IndexChoices},
        rest \in BOOLEAN}

(***************************************************************************)
(* The fetch handler.  Route is the synchronous part: it runs the tests of *)
(* the cascade in order and stops at the first that holds (each branch     *)
(* returns).  Then one action per branch, one step per await.              *)
(***************************************************************************)

r2Get(b, key) == IF key \in DOMAIN b THEN b[key] ELSE NoObject

NoHeader == ""

Response(status, body, ctype, cache, tag) ==
    [kind |-> "response", status |-> status, body |-> body, contentType |-> ctype,
     cacheControl |-> cache, xDebthin |-> tag, location |-> <<>>]

NotFound == Response(404, <<"Not found">>, NoHeader, NoHeader, NoHeader)

\* Response.redirect(url, 301)
Redirect(url) ==
    [kind |-> "response", status |-> 301, body |-> <<>>, contentType |-> NoHeader,
     cacheControl |-> NoHeader, xDebthin |-> NoHeader, location |-> url]

\* the handler threw: no Response is returned
Exception(what) ==
    [kind |-> "exception", status |-> 0, body |-> <<what>>, contentType |-> NoHeader,
     cacheControl |-> NoHeader, xDebthin |-> NoHeader, location |-> <<>>]

NoResponse ==
    [kind |-> "none", status |-> 0, body |-> <<>>, contentType |-> NoHeader,
     cacheControl |-> NoHeader, xDebthin |-> NoHeader, location |-> <<>>]

\* a worker that sends the client elsewhere when the object is missing
serveR2RedirectOnMiss(b, key) ==
    LET obj == r2Get(b, key)
    IN  IF ~obj.present THEN Redirect(<<"https:", "//">> \o key)
        ELSE Response(200, obj.body,
                      IF obj.contentType # "" THEN obj.contentType ELSE contentType(key),
                      CACHE_HEADERS, "hit")

\* serveR2(env, key) || new Response("Not found", { status: 404 })
serveR2(b, key) ==
    LET obj == r2Get(b, key)
    IN  IF ~obj.present THEN NotFound
        ELSE Response(200, obj.body,
                      IF obj.contentType # "" THEN obj.contentType ELSE contentType(key),
                      CACHE_HEADERS, "hit")

\* a worker that treats a stream it cannot decompress as a missing object
serveDecompressedLenient(b, key) ==
    LET obj == r2Get(b, key)
    IN  IF ~obj.present \/ ~IsGzip(obj.body) THEN NotFound
        ELSE Response(200, Gunzip(obj.body), "text/plain; charset=utf-8",
                      CACHE_HEADERS, "hit-decomp")

\* serveDecompressed(env, key) || new Response("Not found", { status: 404 })
serveDecompressed(b, key) ==
    LET obj == r2Get(b, key)
    IN  IF ~obj.present THEN NotFound
        ELSE IF ~IsGzip(obj.body) THEN Exception("TypeError: gzip decompression failed")
        ELSE Response(200, Gunzip(obj.body), "text/plain; charset=utf-8",
                      CACHE_HEADERS, "hit-decomp")

\* url.pathname.replace(/^\//, "")
Raw(r) == IF StartsWith(r.path, SLASH) THEN Tail(r.path) ELSE r.path

IsRoot(raw) == raw = <<>>

\* /^debthin-keyring(-binary)?\.gpg$/
IsKeyring(raw) == raw \in KEYRINGS

First(raw) == Split(raw, SLASH)[1]

HasDistroPrefix(raw) == First(raw) \in {<<"debian">>, <<"ubuntu">>}

DistroOf(raw) == IF HasDistroPrefix(raw) THEN First(raw)[1] ELSE "debian"

RestOf(raw) ==
    IF HasDistroPrefix(raw) THEN Join(Tail(Split(raw, SLASH)), SLASH) ELSE raw

SuitePathOf(raw) == resolveAliases(DistroOf(raw), RestOf(raw))

R2Key(d, sp) == <<d, SLASH>> \o sp

\* [^/]+
NonEmpty(seg) == seg # <<>>

ComponentSeg(d, seg) == Len(seg) = 1 /\ seg[1] \in components(d)

\* binary-(all|amd64|arm64|armhf|i386|riscv64)
BinarySeg(seg) == Len(seg) = 2 /\ seg[1] = "binary-" /\ seg[2] \in ARCHES

\* ^dists/[^/]+/<file>$ on the parts of the path
SuiteFileRe(parts, files) ==
    /\ Len(parts) = 3
    /\ parts[1] = <<"dists">>
    /\ NonEmpty(parts[2])
    /\ parts[3] \in files

\* ^dists/[^/]+/(<c>)/binary-(<arch>)/<file>$ on the parts of the path
ArchFileRe(d, parts, files) ==
    /\ Len(parts) = 5
    /\ parts[1] = <<"dists">>
    /\ NonEmpty(parts[2])
    /\ ComponentSeg(d, parts[3])
    /\ BinarySeg(parts[4])
    /\ parts[5] \in files

IsSuiteRelease(sp)     == SuiteFileRe(Split(sp, SLASH), {<<"Release">>})
IsArchRelease(d, sp)   == ArchFileRe(d, Split(sp, SLASH), {<<"Release">>})
IsPlainPackages(d, sp) == ArchFileRe(d, Split(sp, SLASH), {<<"Packages">>})

\* /^(dists\/[^/]+)\/.+\/by-hash\/SHA256\/([0-9a-f]{64})$/ on the parts of the path
ByHashRe(parts) ==
    /\ Len(parts) >= 6
    /\ parts[1] = <<"dists">>
    /\ NonEmpty(parts[2])
    /\ Join(SubSeq(parts, 3, Len(parts) - 3), SLASH) # <<>>
    /\ parts[Len(parts) - 2] = <<"by-hash">>
    /\ parts[Len(parts) - 1] = <<"SHA256">>
    /\ Len(parts[Len(parts)]) = 1
    /\ parts[Len(parts)][1] \in HexDigests

IsByHash(sp) == ByHashRe(Split(sp, SLASH))

\* a lookup that keeps one index per directory instead of one per suite
ByHashPrefixOfDirectory(sp) ==
    Join(SubSeq(Split(sp, SLASH), 1, Len(Split(sp, SLASH)) - 3), SLASH)

\* byHashMatch[1], byHashMatch[2]
ByHashPrefix(sp) == Join(SubSeq(Split(sp, SLASH), 1, 2), SLASH)
ByHashDigest(sp) == Split(sp, SLASH)[Len(Split(sp, SLASH))][1]

\* a worker that curates everything under dists/
IsKnownDistWholeTree(d, sp) == StartsWith(sp, "dists")

\* distPatterns.some(p => p.test(suitePath))
IsKnownDist(d, sp) ==
    \/ SuiteFileRe(Split(sp, SLASH), {<<"InRelease">>})
    \/ SuiteFileRe(Split(sp, SLASH), {<<"Release", ".gpg">>})
    \/ ArchFileRe(d, Split(sp, SLASH), {<<"Packages">>, <<"Packages", ".gz">>,
                                        <<"Packages", ".lz4">>, <<"Packages", ".xz">>})

\* a cascade that tries the generic known-dist pattern before the special ones
BranchGenericFirst(raw) ==
    IF IsRoot(raw) THEN "root"
    ELSE IF IsKeyring(raw) THEN "keyring"
    ELSE LET d  == DistroOf(raw)
             sp == SuitePathOf(raw)
         IN  IF IsSuiteRelease(sp) THEN "suiteRelease"
             ELSE IF IsKnownDist(d, sp) THEN "knownDist"
             ELSE IF IsArchRelease(d, sp) THEN "archRelease"
             ELSE IF IsPlainPackages(d, sp) THEN "plainPackages"
             ELSE IF IsByHash(sp) THEN "byHashIndex"
             ELSE "redirect"

\* a cascade that lets a known-dist path with no stored object fall through
BranchMissFallsThrough(raw) ==
    IF IsRoot(raw) THEN "root"
    ELSE IF IsKeyring(raw) THEN "keyring"
    ELSE LET d  == DistroOf(raw)
             sp == SuitePathOf(raw)
         IN  IF IsSuiteRelease(sp) THEN "suiteRelease"
             ELSE IF IsArchRelease(d, sp) THEN "archRelease"
             ELSE IF IsPlainPackages(d, sp) THEN "plainPackages"
             ELSE IF IsByHash(sp) THEN "byHashIndex"
             ELSE IF IsKnownDist(d, sp) /\ r2Get(bucket, R2Key(d, sp)).present
                 THEN "knownDist"
             ELSE "redirect"

\* the branch of fetch that a request takes: the first test that holds
Branch(raw) ==
    IF IsRoot(raw) THEN "root"
    ELSE IF IsKeyring(raw) THEN "keyring"
    ELSE LET d  == DistroOf(raw)
             sp == SuitePathOf(raw)
         IN  IF IsSuiteRelease(sp) THEN "suiteRelease"
             ELSE IF IsArchRelease(d, sp) THEN "archRelease"
             ELSE IF IsPlainPackages(d, sp) THEN "plainPackages"
             ELSE IF IsByHash(sp) THEN "byHashIndex"
             ELSE IF IsKnownDist(d, sp) THEN "knownDist"
             ELSE "redirect"

\* r2Key.replace(/\/Release$/, "/InRelease")
InReleaseKey(key) == SubSeq(key, 1, Len(key) - 1) \o <<"InRelease">>

\* a worker that asks the bucket a second time when it gets nothing
FetchWithRetry(key) ==
    fetched' = IF r2Get(bucket, key).present
               THEN Append(fetched, [key |-> key, hit |-> TRUE])
               ELSE fetched \o <<[key |-> key, hit |-> FALSE], [key |-> key, hit |-> FALSE]>>

Fetch(key) == fetched' = Append(fetched, [key |-> key, hit |-> r2Get(bucket, key).present])

Answer(r, response) ==
    /\ rule' = r
    /\ resp' = response
    /\ pc' = "done"

\* const url .. const c, and the tests of the cascade
Route ==
    /\ pc = "recv"
    /\ pc' = Branch(Raw(req))
    /\ IF IsRoot(Raw(req)) \/ IsKeyring(Raw(req))
        THEN UNCHANGED <<distro, suitePath>>
        ELSE /\ distro' = DistroOf(Raw(req))
             /\ suitePath' = SuitePathOf(Raw(req))
    /\ UNCHANGED <<req, bucket, rule, fetched, relPath, resp, prevRule>>
    /\ UNCHANGED <<others, aliasVars, stripVars, signVars, pipeVars>>

ServeRoot ==
    /\ pc = "root"
    /\ Fetch(KeyIndexHtml)
    /\ LET obj == r2Get(bucket, KeyIndexHtml)
       IN  Answer("RootIndex",
                  IF ~obj.present THEN NotFound
                  ELSE Response(200, obj.body, "text/html; charset=utf-8",
                                CACHE_HEADERS, NoHeader))
    /\ UNCHANGED <<req, bucket, distro, suitePath, relPath, prevRule>>
    /\ UNCHANGED <<others, aliasVars, stripVars, signVars, pipeVars>>

ServeKeyring ==
    /\ pc = "keyring"
    /\ Fetch(Raw(req))
    /\ Answer("StaticAsset", serveR2(bucket, Raw(req)))
    /\ UNCHANGED <<req, bucket, distro, suitePath, relPath, prevRule>>
    /\ UNCHANGED <<others, aliasVars, stripVars, signVars, pipeVars>>

ServeSuiteRelease ==
    /\ pc = "suiteRelease"
    /\ LET key == InReleaseKey(R2Key(distro, suitePath))
           obj == r2Get(bucket, key)
       IN  /\ Fetch(key)
           /\ Answer("DerivedSuiteRelease",
                     IF ~obj.present THEN NotFound
                     ELSE Response(200, inReleaseToRelease(obj.body),
                                   "text/plain; charset=utf-8", CACHE_HEADERS, "hit-derived"))
    /\ UNCHANGED <<req, bucket, distro, suitePath, relPath, prevRule>>
    /\ UNCHANGED <<others, aliasVars, stripVars, signVars, pipeVars>>

ServeArchRelease ==
    /\ pc = "archRelease"
    /\ Answer("SynthesizedArchRelease",
              Response(200, archReleaseBody(suitePath), "text/plain; charset=utf-8",
                       CACHE_HEADERS, "hit-generated"))
    /\ UNCHANGED <<req, bucket, distro, suitePath, fetched, relPath, prevRule>>
    /\ UNCHANGED <<others, aliasVars, stripVars, signVars, pipeVars>>

ServePlainPackages ==
    /\ pc = "plainPackages"
    /\ Fetch(R2Key(distro, suitePath) \o <<".gz">>)
    /\ Answer("DecompressedPackages",
              serveDecompressed(bucket, R2Key(distro, suitePath) \o <<".gz">>))
    /\ UNCHANGED <<req, bucket, distro, suitePath, relPath, prevRule>>
    /\ UNCHANGED <<others, aliasVars, stripVars, signVars, pipeVars>>

\* first await of the by-hash branch: the suite's by-hash-index
ByHashIndex ==
    /\ pc = "byHashIndex"
    /\ LET key      == <<distro, SLASH>> \o ByHashPrefix(suitePath) \o <<SLASH, "by-hash-index">>
           indexObj == r2Get(bucket, key)
           parsed   == JsonParse(indexObj.body)
           rel      == IndexGet(parsed.map, ByHashDigest(suitePath))
       IN  /\ Fetch(key)
           /\ IF ~indexObj.present
                THEN Answer("ByHashLookup", NotFound) /\ relPath' = <<>>
              ELSE IF ~parsed.ok
                THEN /\ Answer("ByHashLookup", Exception("SyntaxError: JSON.parse"))
                     /\ relPath' = <<>>
              ELSE IF ~Truthy(rel)
                THEN Answer("ByHashLookup", NotFound) /\ relPath' = <<>>
              ELSE /\ relPath' = rel.v
                   /\ pc' = "byHashObject"
                   /\ UNCHANGED <<rule, resp>>
    /\ UNCHANGED <<req, bucket, distro, suitePath, prevRule>>
    /\ UNCHANGED <<others, aliasVars, stripVars, signVars, pipeVars>>

\* second await of the by-hash branch: the object the index names
ByHashObject ==
    /\ pc = "byHashObject"
    /\ LET key == <<distro, SLASH>> \o ByHashPrefix(suitePath) \o <<SLASH>> \o relPath
       IN  /\ Fetch(key)
           /\ Answer("ByHashLookup", serveR2(bucket, key))
    /\ UNCHANGED <<req, bucket, distro, suitePath, relPath, prevRule>>
    /\ UNCHANGED <<others, aliasVars, stripVars, signVars, pipeVars>>

ServeKnownDist ==
    /\ pc = "knownDist"
    /\ Fetch(R2Key(distro, suitePath))
    /\ Answer("VerbatimStored", serveR2(bucket, R2Key(distro, suitePath)))
    /\ UNCHANGED <<req, bucket, distro, suitePath, relPath, prevRule>>
    /\ UNCHANGED <<others, aliasVars, stripVars, signVars, pipeVars>>

RedirectUpstream ==
    /\ pc = "redirect"
    /\ Answer("Redirect",
              Redirect(<<req.scheme, "//">> \o UPSTREAMS[distro] \o <<SLASH>>
                       \o suitePath \o req.search))
    /\ UNCHANGED <<req, bucket, distro, suitePath, fetched, relPath, prevRule>>
    /\ UNCHANGED <<others, aliasVars, stripVars, signVars, pipeVars>>

\* the pipeline's upload step replaces the published tree
PipelineUpload == bucket' \in StorageStates

\* the client repeats its request after the pipeline has republished
RepeatAfterUpload ==
    /\ pc = "done"
    /\ PipelineUpload
    /\ prevRule' = rule
    /\ pc' = "recv"
    /\ distro' = "" /\ suitePath' = <<>> /\ rule' = ""
    /\ fetched' = <<>> /\ relPath' = <<>> /\ resp' = NoResponse
    /\ UNCHANGED req
    /\ UNCHANGED <<others, aliasVars, stripVars, signVars, pipeVars>>

AliasIdle == aliasIn = [distro |-> "", path |-> <<>>] /\ aliasOut = <<>>
StripIdle == text = <<>> /\ release = <<>> /\ releaseFile = <<>>
SignIdle  ==
    /\ script = "" /\ distDir = [distro |-> "", suite |-> "", files |-> <<>>]
    /\ loop = "" /\ idx = 0 /\ manifest = <<>>
PipeIdle ==
    /\ step = "" /\ cached = <<>> /\ distOutput = <<>> /\ pool = <<>> /\ signed = <<>>
    /\ exitOf = <<>> /\ ERRORS = 0 /\ uploaded = {} /\ phases = <<>>
WorkerIdle ==
    /\ req = [scheme |-> "", path |-> <<>>, search |-> <<>>]
    /\ bucket = EmptyMap /\ pc = "idle" /\ distro = "" /\ suitePath = <<>> /\ rule = ""
    /\ fetched = <<>> /\ relPath = <<>> /\ resp = NoResponse /\ prevRule = ""
    /\ others = <<>>

Init ==
    /\ req \in Requests
    /\ bucket \in StorageStates
    /\ pc = "recv"
    /\ distro = "" /\ suitePath = <<>> /\ rule = ""
    /\ fetched = <<>> /\ relPath = <<>> /\ resp = NoResponse /\ prevRule = ""
    /\ others = <<>>
    /\ AliasIdle /\ StripIdle /\ SignIdle /\ PipeIdle

Next ==
    \/ Route
    \/ ServeRoot
    \/ ServeKeyring
    \/ ServeSuiteRelease
    \/ ServeArchRelease
    \/ ServePlainPackages
    \/ ByHashIndex
    \/ ByHashObject
    \/ ServeKnownDist
    \/ RedirectUpstream
    \/ RepeatAfterUpload

Spec == Init /\ [][Next]_vars

\* one request for each shape of path the cascade tells apart
LivePaths ==
    {<<>>, <<"debian">>, <<"debthin-keyring", ".gpg">>,
     Path(<<Seg("dists"), Seg("trixie"), Seg("Release")>>),
     Path(<<Seg("dists"), Seg("stable"), Seg("InRelease")>>),
     Path(<<Seg("dists"), Seg("trixie"), Seg("Contents")>>),
     Path(<<Seg("dists"), Seg("trixie"), Seg("main"), <<"binary-", "amd64">>, Seg("Release")>>),
     Path(<<Seg("dists"), Seg("stable"), Seg("main"), <<"binary-", "amd64">>, Seg("Packages")>>),
     Path(<<Seg("dists"), Seg("trixie"), Seg("main"), <<"binary-", "amd64">>, <<"Packages", ".gz">>>>),
     Path(<<Seg("ubuntu"), Seg("dists"), Seg("trixie"), Seg("main"), <<"binary-", "amd64">>,
            Seg("Packages")>>),
     Path(<<Seg("dists"), Seg("trixie"), Seg("main"), <<"binary-", "amd64">>,
            Seg("by-hash"), Seg("SHA256"), Seg("d1")>>),
     Path(<<Seg("dists"), Seg("trixie"), Seg("main"), Seg("by-hash"), Seg("SHA256"), Seg("d2")>>),
     Path(<<Seg("pool"), Seg("main"), Seg("a"), Seg("apt"), <<"apt_2.6.1_amd64", ".deb">>>>)}

LiveRequests == {r \in Requests : Raw(r) \in LivePaths}

\* a request arrives at the worker; the bucket holds what was published
Receive ==
    /\ pc = "idle"
    /\ req' \in LiveRequests
    /\ bucket' \in StorageStates
    /\ pc' = "recv"
    /\ UNCHANGED <<distro, suitePath, rule, fetched, relPath, resp, prevRule>>
    /\ UNCHANGED <<others, aliasVars, stripVars, signVars, pipeVars>>

InitLive == WorkerIdle /\ AliasIdle /\ StripIdle /\ SignIdle /\ PipeIdle

\* one request against a bucket that does not change
NextRequest ==
    \/ Receive
    \/ Route
    \/ ServeRoot
    \/ ServeKeyring
    \/ ServeSuiteRelease
    \/ ServeArchRelease
    \/ ServePlainPackages
    \/ ByHashIndex
    \/ ByHashObject
    \/ ServeKnownDist
    \/ RedirectUpstream

\* the runtime resumes a handler once the read it awaits has returned: a
\* step of the handler that can be taken is taken
SpecLive == InitLive /\ [][NextRequest]_vars /\ WF_vars(NextRequest)

(***************************************************************************)
(* The same path asked for without and with the ecosystem prefix.          *)
(***************************************************************************)

\* the variables of one invocation of fetch
Local ==
    [req |-> req, pc |-> pc, distro |-> distro, suitePath |-> suitePath, rule |-> rule,
     fetched |-> fetched, relPath |-> relPath, resp |-> resp]

\* an invocation of fetch that has not run yet
Fresh(r) ==
    [req |-> r, pc |-> "recv", distro |-> "", suitePath |-> <<>>, rule |-> "",
     fetched |-> <<>>, relPath |-> <<>>, resp |-> NoResponse]

\* a worker that keeps the path found in the by-hash index in a variable of
\* the module, which every invocation reads and writes
ResumeSharedRelPath(l) ==
    /\ req' = l.req /\ pc' = l.pc /\ distro' = l.distro /\ suitePath' = l.suitePath
    /\ rule' = l.rule /\ fetched' = l.fetched /\ relPath' = relPath /\ resp' = l.resp

\* the handler runs on with the variables of invocation l
Resume(l) ==
    /\ req' = l.req /\ pc' = l.pc /\ distro' = l.distro /\ suitePath' = l.suitePath
    /\ rule' = l.rule /\ fetched' = l.fetched /\ relPath' = l.relPath /\ resp' = l.resp

InitPrefix ==
    /\ req \in {r \in Requests : ~HasDistroPrefix(Raw(r))}
    /\ bucket \in StorageStates
    /\ pc = "recv"
    /\ distro = "" /\ suitePath = <<>> /\ rule = ""
    /\ fetched = <<>> /\ relPath = <<>> /\ resp = NoResponse /\ prevRule = ""
    /\ others = <<>>
    /\ AliasIdle /\ StripIdle /\ SignIdle /\ PipeIdle

\* the client asks for the same path again, this time under /debian/
RepeatUnderDebian ==
    /\ pc = "done" /\ others = <<>>
    /\ others' = <<Local>>
    /\ Resume(Fresh([req EXCEPT !.path = <<SLASH, "debian", SLASH>> \o Raw(req)]))
    /\ UNCHANGED <<bucket, prevRule>>
    /\ UNCHANGED <<aliasVars, stripVars, signVars, pipeVars>>

NextPrefix ==
    \/ Route
    \/ ServeRoot
    \/ ServeKeyring
    \/ ServeSuiteRelease
    \/ ServeArchRelease
    \/ ServePlainPackages
    \/ ByHashIndex
    \/ ByHashObject
    \/ ServeKnownDist
    \/ RedirectUpstream
    \/ RepeatUnderDebian

SpecPrefix == InitPrefix /\ [][NextPrefix]_vars

(***************************************************************************)
(* Several invocations of fetch in flight at once.  The runtime runs one   *)
(* invocation until it awaits a read of the bucket, and then any of the    *)
(* invocations whose read has returned; the bucket does not change.        *)
(***************************************************************************)

\* the invocations in flight beside the one that runs
MaxOthers == 1

\* one request for each branch of the cascade, two for the by-hash branch
ConcPaths ==
    <<<<>>,
      <<"debthin-keyring", ".gpg">>,
      Path(<<Seg("dists"), Seg("trixie"), Seg("Release")>>),
      Path(<<Seg("dists"), Seg("trixie"), Seg("main"), <<"binary-", "amd64">>, Seg("Release")>>),
      Path(<<Seg("dists"), Seg("stable"), Seg("main"), <<"binary-", "amd64">>, Seg("Packages")>>),
      Path(<<Seg("dists"), Seg("trixie"), Seg("main"), <<"binary-", "amd64">>,
             Seg("by-hash"), Seg("SHA256"), Seg("d1")>>),
      Path(<<Seg("dists"), Seg("stable"), Seg("main"), Seg("by-hash"), Seg("SHA256"), Seg("d2")>>),
      Path(<<Seg("dists"), Seg("trixie"), Seg("main"), <<"binary-", "amd64">>, <<"Packages", ".gz">>>>),
      Path(<<Seg("pool"), Seg("main"), Seg("a"), Seg("apt"), <<"apt_2.6.1_amd64", ".deb">>>>)>>

ConcRequest(i) == [scheme |-> "https:", path |-> <<SLASH>> \o ConcPaths[i], search |-> <<>>]

\* the requests arrive together; which of them runs first is up to Switch
InitConc ==
    /\ \E ids \in [1..(MaxOthers + 1) -> 1..Len(ConcPaths)] :
          /\ \A i \in 1..MaxOthers : ids[i] <= ids[i + 1]
          /\ req = ConcRequest(ids[1])
          /\ others = [i \in 1..MaxOthers |-> Fresh(ConcRequest(ids[i + 1]))]
    /\ bucket \in StorageStates
    /\ pc = "recv"
    /\ distro = "" /\ suitePath = <<>> /\ rule = ""
    /\ fetched = <<>> /\ relPath = <<>> /\ resp = NoResponse /\ prevRule = ""
    /\ AliasIdle /\ StripIdle /\ SignIdle /\ PipeIdle

\* the running invocation is suspended at an await (or has returned), and
\* the runtime starts or resumes another one
Switch ==
    /\ pc # "recv"
    /\ Len(others) = MaxOthers
    /\ \E i \in 1..Len(others) :
          /\ others[i].pc # "done"
          /\ others' = [others EXCEPT ![i] = Local]
          /\ Resume(others[i])
    /\ UNCHANGED <<bucket, prevRule>>
    /\ UNCHANGED <<aliasVars, stripVars, signVars, pipeVars>>

\* every invocation has returned; one of the requests is sent again and is
\* processed with nothing else in flight
ReplayAlone ==
    /\ pc = "done"
    /\ Len(others) = MaxOthers
    /\ \A i \in 1..Len(others) : others[i].pc = "done"
    /\ others' = Append(others, Local)
    /\ \E r \in {req} \cup {others[i].req : i \in 1..Len(others)} : Resume(Fresh(r))
    /\ UNCHANGED <<bucket, prevRule>>
    /\ UNCHANGED <<aliasVars, stripVars, signVars, pipeVars>>

NextConc ==
    \/ Route
    \/ ServeRoot
    \/ ServeKeyring
    \/ ServeSuiteRelease
    \/ ServeArchRelease
    \/ ServePlainPackages
    \/ ByHashIndex
    \/ ByHashObject
    \/ ServeKnownDist
    \/ RedirectUpstream
    \/ Switch
    \/ ReplayAlone

SpecConc == InitConc /\ [][NextConc]_vars

(***************************************************************************)
(* A by-hash request while the pipeline republishes the suite.  Each tree  *)
(* the pipeline uploads is consistent: its by-hash-index maps the digest   *)
(* of its Packages.gz to the plain path of that file.                      *)
(***************************************************************************)

NewerPackagesText == <<"Package: apt", NL, "Version: 2", NL, NL>>

\* sha256sum of the two Packages.gz the pipeline publishes one after the other
HexDigestOf == (Gzip(PackagesText) :> "d1") @@ (Gzip(NewerPackagesText) :> "d2")

\* the tree uploaded for one filtered Packages.gz
PublishedTree(gz) ==
    (KeyIndexHtml :> IndexHtmlObject) @@ (KeyKeyring :> KeyringObject)
    @@ (KeyInRelease :> InReleaseObject)
    @@ (KeyPackagesGz :> Object(gz, "application/gzip"))
    @@ (KeyByHashIdx :> Object(IndexJson({HexDigestOf[gz]}), ""))

PublishedTrees == {PublishedTree(gz) : gz \in DOMAIN HexDigestOf}

InitRace ==
    /\ req \in {r \in Requests : IsByHash(SuitePathOf(Raw(r)))}
    /\ bucket \in PublishedTrees
    /\ pc = "recv"
    /\ distro = "" /\ suitePath = <<>> /\ rule = ""
    /\ fetched = <<>> /\ relPath = <<>> /\ resp = NoResponse /\ prevRule = ""
    /\ others = <<>>
    /\ AliasIdle /\ StripIdle /\ SignIdle /\ PipeIdle

\* the pipeline uploads its next tree while the request is being handled
Republish ==
    /\ pc # "done"
    /\ bucket' \in PublishedTrees \ {bucket}
    /\ UNCHANGED <<req, pc, distro, suitePath, rule, fetched, relPath, resp, prevRule, others>>
    /\ UNCHANGED <<aliasVars, stripVars, signVars, pipeVars>>

NextRace ==
    \/ Route
    \/ ByHashIndex
    \/ ByHashObject
    \/ Republish

SpecRace == InitRace /\ [][NextRace]_vars

(***************************************************************************)
(* resolveAliases on its own: every alias and codename of both tables, and *)
(* suites that are in neither.                                             *)
(***************************************************************************)

Range(f) == {f[k] : k \in DOMAIN f}

AliasSuites ==
    DOMAIN DEBIAN_SUITE_ALIASES \cup DOMAIN UBUNTU_SUITE_ALIASES
    \cup Range(DEBIAN_SUITE_ALIASES) \cup Range(UBUNTU_SUITE_ALIASES)
    \cup {"sid", "constructor", "toString", "__proto__"}

AliasTails ==
    {<<>>, <<SLASH, "Release">>,
     <<SLASH, "main", SLASH, "binary-", "amd64", SLASH, "Packages", ".gz">>,
     <<SLASH, "stable", SLASH, "lts">>}

AliasPaths ==
    {<<"dists", SLASH, s>> \o t : s \in AliasSuites, t \in AliasTails}
    \cup {<<>>, <<"dists">>, <<"dists", SLASH>>, <<"stable">>,
          <<"pool", SLASH, "stable", SLASH, "x">>,
          <<"pool", SLASH, "lts", SLASH, "x">>,
          <<"x", SLASH, "dists", SLASH, "stable">>}

InitAlias ==
    /\ aliasIn \in [distro : {"debian", "ubuntu"}, path : AliasPaths]
    /\ aliasOut = <<>>
    /\ WorkerIdle /\ StripIdle /\ SignIdle /\ PipeIdle

\* const suitePath = resolveAliases(distro, rest)
ResolveOnce ==
    /\ aliasOut = <<>>
    /\ aliasOut' = <<resolveAliases(aliasIn.distro, aliasIn.path)>>
    /\ UNCHANGED <<aliasIn, workerVars, stripVars, signVars, pipeVars>>

\* the resolved path is resolved again
ResolveAgain ==
    /\ Len(aliasOut) = 1
    /\ aliasOut' = Append(aliasOut, resolveAliases(aliasIn.distro, aliasOut[1]))
    /\ UNCHANGED <<aliasIn, workerVars, stripVars, signVars, pipeVars>>

NextAlias == ResolveOnce \/ ResolveAgain

SpecAlias == InitAlias /\ [][NextAlias]_vars

(***************************************************************************)
(* inReleaseToRelease on its own, over every short text.                   *)
(***************************************************************************)

\* longest text, in tokens
MaxTextLen == 5

TextTokens == {ORIGIN, PGP_SIG, PGP_BEGIN, NL, " ", "x"}

Texts == UNION {[1..n -> TextTokens] : n \in 0..MaxTextLen}

InitStrip ==
    /\ text \in Texts
    /\ release = <<>>
    /\ releaseFile = <<>>
    /\ WorkerIdle /\ AliasIdle /\ SignIdle /\ PipeIdle

\* inReleaseToRelease(text) of the suite-level Release branch
StripWrapper ==
    /\ release = <<>>
    /\ release' = <<inReleaseToRelease(text)>>
    /\ UNCHANGED <<text, releaseFile, workerVars, aliasVars, signVars, pipeVars>>

NextStrip == StripWrapper

SpecStrip == InitStrip /\ [][NextStrip]_vars

(***************************************************************************)
(* From gen_release to the suite Release branch: the Release file that     *)
(* sign_all.sh writes, gpg --clearsign of it into InRelease, and the       *)
(* worker's strip of the stored InRelease, once and again.                 *)
(***************************************************************************)

\* the fields gen_release takes from the upstream InRelease ("": not there)
UpstreamFields ==
    [suite : {"", "stable"}, version : {"", "13.1"}, date : {"", "Sat, 06 Sep 2025"},
     changelogs : {"", "https://metadata.ftp-master.debian.org/changelogs"}]

\* ${distro^}
Capitalized == [debian |-> "Debian", ubuntu |-> "Ubuntu"]

\* the file gen_release collects its printf lines in: nothing when the suite
\* has no Packages.gz, else four lines for each
Sha256FileChoices ==
    {<<>>,
     <<" ", "d1", " ", "120", " ", "main/binary-amd64/Packages.gz", NL,
       " ", "d1", " ", "120", " ", "main/binary-amd64/by-hash/SHA256/d1", NL,
       " ", "d2", " ", "300", " ", "main/binary-amd64/Packages", NL,
       " ", "d3", " ", "52", " ", "main/binary-amd64/Release", NL>>}

\* echo of a line that is there only when its field is
Optional(line) == IF line = <<>> THEN <<>> ELSE line \o <<NL>>

\* the block of echo commands redirected to $dist_dir/Release
ReleaseText(d, suite, up, sha256_file) ==
    LET version_line    == IF up.version # "" THEN <<"Version: ", up.version>> ELSE <<>>
        changelogs_line == IF up.changelogs # "" THEN <<"Changelogs: ", up.changelogs>>
                           ELSE <<>>
        description ==
            IF up.version # ""
            THEN <<"Curated server package index for ", Capitalized[d], " ", up.version,
                   " (", suite, ")", " - debthin.org">>
            ELSE <<"Curated server package index for ", Capitalized[d], " ", suite,
                   " - debthin.org">>
    IN  <<ORIGIN, " debthin", NL, "Label: debthin", NL>>
        \o <<"Suite: ", IF up.suite # "" THEN up.suite ELSE suite, NL>>
        \o Optional(version_line)
        \o <<"Codename: ", suite, NL>>
        \o Optional(changelogs_line)
        \o <<"Date: ", IF up.date # "" THEN up.date ELSE "now", NL>>
        \o <<"Acquire-By-Hash: yes", NL>>
        \o <<IF d = "ubuntu" THEN "Architectures: amd64 arm64 i386 riscv64"
              ELSE IF suite \in {"forky", "trixie", "trixie-updates"}
                   THEN "Architectures: all amd64 arm64 armhf i386 riscv64"
              ELSE "Architectures: all amd64 arm64 armhf i386", NL>>
        \o <<IF d = "ubuntu" THEN "Components: main restricted universe multiverse"
              ELSE IF suite \in {"bullseye", "bullseye-updates"}
                   THEN "Components: main contrib non-free"
              ELSE "Components: main contrib non-free non-free-firmware", NL>>
        \o <<"Description: ">> \o description \o <<NL>>
        \o <<"SHA256:", NL>>
        \o sha256_file

ReleaseTexts ==
    {ReleaseText(ds[1], ds[2], up, sha) :
        ds \in {<<"debian", "trixie">>, <<"debian", "bullseye">>, <<"ubuntu", "noble">>},
        up \in UpstreamFields, sha \in Sha256FileChoices}

\* a line of a clear-signed text that begins with a dash is written with
\* "- " before it
DashEscaped(line) ==
    IF Len(line) >= 1 /\ line[1] \in {PGP_SIG, PGP_BEGIN, "-"} THEN <<"- ">> \o line
    ELSE line

RECURSIVE DashEscapeLines(_)
DashEscapeLines(lines) ==
    IF Len(lines) = 0 THEN <<>>
    ELSE <<DashEscaped(lines[1])>> \o DashEscapeLines(Tail(lines))

\* gpg --armor --clearsign: header, the text with its lines dash-escaped,
\* and the armored signature after the text's last line end
ClearSign(t) ==
    <<PGP_BEGIN, NL, "Hash: SHA512", NL, NL>>
    \o Join(DashEscapeLines(Split(t, NL)), NL)
    \o (IF EndsWith(t, NL) THEN <<>> ELSE <<NL>>)
    \o <<PGP_SIG, NL, NL, "iQIzBAEBCgAdFiEE", NL, "=AbCd", NL,
          "-----END PGP SIGNATURE-----", NL>>

\* the bucket holds an InRelease of any short text, or none yet
InitRound ==
    /\ text \in Texts
    /\ release = <<>>
    /\ releaseFile = <<>>
    /\ WorkerIdle /\ AliasIdle /\ SignIdle /\ PipeIdle

\* gen_release writes the Release of a suite, phase B signs it, and the
\* upload stores the InRelease
SignRelease ==
    /\ text = <<>> /\ release = <<>> /\ releaseFile = <<>>
    /\ releaseFile' \in ReleaseTexts
    /\ text' = ClearSign(releaseFile')
    /\ UNCHANGED <<release, workerVars, aliasVars, signVars, pipeVars>>

\* a request for the suite's Release: the stored InRelease is stripped
StripStored ==
    /\ text # <<>>
    /\ StripWrapper

\* what the worker served is stored as InRelease and asked for again
StripAgain ==
    /\ Len(release) = 1
    /\ release' = Append(release, inReleaseToRelease(release[1]))
    /\ UNCHANGED <<text, releaseFile, workerVars, aliasVars, signVars, pipeVars>>

NextRound == SignRelease \/ StripStored \/ StripAgain

SpecRound == InitRound /\ [][NextRound]_vars

(***************************************************************************)
(* The signing scripts over one dist_output/<distro>/dists/<suite>: the    *)
(* loops that append to the SHA256 file.  sign_all.sh (gen_release) has    *)
(* one loop that appends four entries per Packages.gz; sign.sh has four    *)
(* loops that append one entry each.  A digest is the bytes it was taken   *)
(* of (sha256sum has no collisions here), so two entries agree on the      *)
(* digest exactly when the same bytes were piped to sha256sum.             *)
(***************************************************************************)

\* most newlines at the end of a decompressed Packages file
MaxTrailingNewlines == 2

RECURSIVE Newlines(_)
Newlines(k) == IF k = 0 THEN <<>> ELSE <<NL>> \o Newlines(k - 1)

PackagesContents ==
    {<<>>} \cup {<<"Package: apt">> \o Newlines(k) : k \in 0..MaxTrailingNewlines}

\* the directories of Packages.gz files the filter may have written, in sort order
CandidateDirs(d) ==
    IF d = "ubuntu"
    THEN <<[component |-> "main", archDir |-> <<"binary-", "all">>],
           [component |-> "main", archDir |-> <<"binary-", "amd64">>],
           [component |-> "universe", archDir |-> <<"binary-", "amd64">>]>>
    ELSE <<[component |-> "contrib", archDir |-> <<"binary-", "amd64">>],
           [component |-> "main", archDir |-> <<"binary-", "all">>],
           [component |-> "main", archDir |-> <<"binary-", "amd64">>]>>

NoFile == <<"no file">>

\* find "$dist_dir" -type f -name "Packages.gz" -print0 | sort -z
RECURSIVE FoundFiles(_, _, _)
FoundFiles(dirs, contents, i) ==
    IF i > Len(dirs) THEN <<>>
    ELSE (IF contents[i] = NoFile THEN <<>>
          ELSE <<[component |-> dirs[i].component, archDir |-> dirs[i].archDir,
                  gz |-> Gzip(contents[i])]>>)
         \o FoundFiles(dirs, contents, i + 1)

DistDirs ==
    {[distro |-> ds[1], suite |-> ds[2], files |-> FoundFiles(CandidateDirs(ds[1]), c, 1)] :
        ds \in {<<"debian", "trixie">>, <<"ubuntu", "noble">>},
        c \in [1..3 -> PackagesContents \cup {NoFile}]}

\* a variable set by $(...): the output without its trailing newlines
RECURSIVE CommandSubstitution(_)
CommandSubstitution(out) ==
    IF Len(out) > 0 /\ out[Len(out)] = NL
    THEN CommandSubstitution(SubSeq(out, 1, Len(out) - 1))
    ELSE out

\* wc -c, stat -c%s, ${#var} on ASCII
RECURSIVE ByteLen(_)
ByteLen(s) == IF Len(s) = 0 THEN 0 ELSE Len(s[1]) + ByteLen(Tail(s))

\* sha256sum | cut -d' ' -f1
Sha256(bytes) == [sha256of |-> bytes]

\* rel="${f#$dist_dir/}"
Rel(f) == <<f.component, SLASH>> \o f.archDir \o <<SLASH, "Packages", ".gz">>

\* reldir=$(dirname "$rel")
RelDir(f) == <<f.component, SLASH>> \o f.archDir

\* relbase="${rel%.gz}"
RelBase(f) == IF EndsWith(Rel(f), ".gz") THEN SubSeq(Rel(f), 1, Len(Rel(f)) - 1) ELSE Rel(f)

\* arch=$(basename "$(dirname "$f")" | sed 's/binary-//')
ArchOf(f) == RemoveFirst(f.archDir, "binary-")

Entry(kind, file, path, bytes) ==
    [kind |-> kind, file |-> file, path |-> path, sha256 |-> Sha256(bytes),
     size |-> ByteLen(bytes)]

\* the by-hash entry names the digest of the .gz in its path
ByHashEntry(file, f) ==
    [kind |-> "byhash", file |-> file, path |-> RelDir(f) \o <<SLASH, "by-hash", SLASH, "SHA256">>,
     sha256 |-> Sha256(f.gz), size |-> ByteLen(f.gz)]

\* sign_all.sh: arch_release="Archive: $suite"$'\n'"Component: $component"$'\n'...
SignAllArchRelease(suite, f) ==
    <<"Archive: ", suite, NL, "Component: ", f.component, NL>>
    \o <<"Architecture: ">> \o ArchOf(f) \o <<NL>>

\* sign.sh: content="Archive: $SUITE"$'\n'"Component: main"$'\n'...
SignArchRelease(suite, f) ==
    <<"Archive: ", suite, NL, "Component: ", "main", NL>>
    \o <<"Architecture: ">> \o ArchOf(f) \o <<NL>>

InitSign ==
    /\ script \in {"sign_all", "sign"}
    /\ distDir \in DistDirs
    /\ loop = IF script = "sign_all" THEN "gen_release" ELSE "gz"
    /\ idx = 1
    /\ manifest = <<>>
    /\ WorkerIdle /\ AliasIdle /\ StripIdle /\ PipeIdle

File == distDir.files[idx]

\* sign_all.sh: one pass of the while loop of gen_release
GenReleaseEntries ==
    /\ script = "sign_all" /\ loop = "gen_release"
    /\ idx <= Len(distDir.files)
    /\ LET raw == CommandSubstitution(Gunzip(File.gz))
       IN  manifest' = manifest \o
             <<Entry("gz", idx, Rel(File), File.gz),
               ByHashEntry(idx, File),
               Entry("raw", idx, RelBase(File), raw),
               Entry("archRelease", idx, RelDir(File) \o <<SLASH, "Release">>,
                     SignAllArchRelease(distDir.suite, File))>>
    /\ idx' = idx + 1
    /\ UNCHANGED <<script, distDir, loop, workerVars, aliasVars, stripVars, pipeVars>>

\* sign.sh: one pass of the loop "Compressed Packages.gz"
SignGzEntry ==
    /\ script = "sign" /\ loop = "gz"
    /\ idx <= Len(distDir.files)
    /\ manifest' = Append(manifest, Entry("gz", idx, Rel(File), File.gz))
    /\ idx' = idx + 1
    /\ UNCHANGED <<script, distDir, loop, workerVars, aliasVars, stripVars, pipeVars>>

\* sign.sh: one pass of the loop "By-hash entries for Packages.gz"
SignByHashEntry ==
    /\ script = "sign" /\ loop = "byhash"
    /\ idx <= Len(distDir.files)
    /\ manifest' = Append(manifest, ByHashEntry(idx, File))
    /\ idx' = idx + 1
    /\ UNCHANGED <<script, distDir, loop, workerVars, aliasVars, stripVars, pipeVars>>

\* sign.sh: one pass of the loop "Uncompressed Packages"
SignRawEntry ==
    /\ script = "sign" /\ loop = "raw"
    /\ idx <= Len(distDir.files)
    /\ manifest' = Append(manifest, Entry("raw", idx, RelBase(File), Gunzip(File.gz)))
    /\ idx' = idx + 1
    /\ UNCHANGED <<script, distDir, loop, workerVars, aliasVars, stripVars, pipeVars>>

\* sign.sh: one pass of the loop "Per-arch Release files"
SignArchReleaseEntry ==
    /\ script = "sign" /\ loop = "archRelease"
    /\ idx <= Len(distDir.files)
    /\ manifest' = Append(manifest,
                          Entry("archRelease", idx, RelDir(File) \o <<SLASH, "Release">>,
                                SignArchRelease(distDir.suite, File)))
    /\ idx' = idx + 1
    /\ UNCHANGED <<script, distDir, loop, workerVars, aliasVars, stripVars, pipeVars>>

NextLoop(l) ==
    IF l = "gz" THEN "byhash"
    ELSE IF l = "byhash" THEN "raw"
    ELSE IF l = "raw" THEN "archRelease"
    ELSE "build"

\* a loop has read all of find's output: the script goes on to what follows
LoopDone ==
    /\ loop \in {"gen_release", "gz", "byhash", "raw", "archRelease"}
    /\ idx > Len(distDir.files)
    /\ loop' = IF script = "sign_all" THEN "build" ELSE NextLoop(loop)
    /\ idx' = IF loop' = "build" THEN idx ELSE 1
    /\ UNCHANGED <<script, distDir, manifest, workerVars, aliasVars, stripVars, pipeVars>>

NextSign ==
    \/ GenReleaseEntries
    \/ SignGzEntry
    \/ SignByHashEntry
    \/ SignRawEntry
    \/ SignArchReleaseEntry
    \/ LoopDone

SpecSign == InitSign /\ [][NextSign]_vars

(***************************************************************************)
(* The rebuild script (src/unnamed/part_001): fetch, filter, sign          *)
(* (sign_all.sh), validate (validate.sh), upload.  The script runs under   *)
(* set -euo pipefail: a command that exits non-zero ends the run there.    *)
(* One suite of each ecosystem stands for the suites of the script.  The   *)
(* jobs of an xargs -P pool start and end in any order (a pool limit only  *)
(* takes interleavings away).                                              *)
(***************************************************************************)

PipeSuites == {"trixie", "noble"}

DistroOfSuite == [trixie |-> "debian", noble |-> "ubuntu"]

\* dist_output/<distro>/dists/<suite>: the filtered Packages.gz ("empty":
\* no package passed the filter), the Release file and the InRelease file
\* ("current": its checksums are those of the Packages.gz there now)
NoSuiteDir   == [gz |-> "absent", release |-> "absent", inrelease |-> "absent"]
OldSuiteDir  == [gz |-> "good", release |-> "current", inrelease |-> "current"]

SuiteDirExists(d) == d # NoSuiteDir

InitPipe ==
    /\ step = "start"
    /\ cached \in [PipeSuites -> BOOLEAN]
    /\ distOutput \in [PipeSuites -> {NoSuiteDir, OldSuiteDir}]
    /\ \A s \in PipeSuites : SuiteDirExists(distOutput[s]) => cached[s]
    /\ pool = <<>> /\ signed = <<>> /\ exitOf = <<>> /\ ERRORS = 0
    /\ uploaded = {} /\ phases = <<>>
    /\ WorkerIdle /\ AliasIdle /\ StripIdle /\ SignIdle

JobsJoined == \A j \in DOMAIN pool : pool[j] \in {"ok", "failed"}

\* xargs exits 123 when an invocation exited with a status from 1 to 125
XargsExit(p) == IF \E j \in DOMAIN p : p[j] = "failed" THEN 123 ELSE 0

\* set -e: a phase that exits non-zero ends the script; else the next begins
EndPhase(phase, st, next) ==
    /\ exitOf' = exitOf @@ (phase :> st)
    /\ step' = IF st # 0 THEN "aborted" ELSE next

Begin(phase) == phases' = Append(phases, phase)

\* Phase 1: the job list is piped to xargs -P
StartFetch ==
    /\ step = "start"
    /\ step' = "fetch"
    /\ Begin("fetch")
    /\ pool' = [s \in PipeSuites |-> "queued"]
    /\ UNCHANGED <<cached, distOutput, signed, exitOf, ERRORS, uploaded>>
    /\ UNCHANGED <<workerVars, aliasVars, stripVars, signVars>>

\* xargs starts the next invocation of its pool
StartJob ==
    /\ step \in {"fetch", "gen_release"}
    /\ \E j \in DOMAIN pool :
          /\ pool[j] = "queued"
          /\ pool' = [pool EXCEPT ![j] = "running"]
    /\ UNCHANGED <<step, cached, distOutput, signed, exitOf, ERRORS, uploaded, phases>>
    /\ UNCHANGED <<workerVars, aliasVars, stripVars, signVars>>

\* do_fetch: curl of Packages.gz; if that fails and nothing is cached, curl
\* of Packages.xz re-encoded with gzip; if that fails too, a warning.  The
\* function returns non-zero only when the re-encoding fails.
do_fetch ==
    /\ step = "fetch"
    /\ \E j \in DOMAIN pool :
          /\ pool[j] = "running"
          /\ \E outcome \in {"gz", "gz failed", "xz", "xz reencode failed", "unavailable"} :
                /\ outcome \in {"xz", "xz reencode failed", "unavailable"} => ~cached[j]
                /\ cached' = [cached EXCEPT
                                ![j] = IF outcome \in {"gz", "xz", "xz reencode failed"}
                                       THEN TRUE ELSE @]
                /\ pool' = [pool EXCEPT
                              ![j] = IF outcome = "xz reencode failed" THEN "failed" ELSE "ok"]
    /\ UNCHANGED <<step, distOutput, signed, exitOf, ERRORS, uploaded, phases>>
    /\ UNCHANGED <<workerVars, aliasVars, stripVars, signVars>>

\* xargs has waited for every invocation; then the pool of do_fetch_inrelease,
\* whose invocations end with || true
JoinFetch ==
    /\ step = "fetch"
    /\ JobsJoined
    /\ EndPhase("fetch", XargsExit(pool), "filter")
    /\ IF XargsExit(pool) = 0 THEN Begin("filter") ELSE UNCHANGED phases
    /\ UNCHANGED <<cached, distOutput, pool, signed, ERRORS, uploaded>>
    /\ UNCHANGED <<workerVars, aliasVars, stripVars, signVars>>

\* the suites of one ecosystem that have a cached Packages.gz
CachedOf(d) == {s \in PipeSuites : DistroOfSuite[s] = d /\ cached[s]}

\* what filter.py leaves in dist_output: a Packages.gz for each job
Filtered(out) ==
    [s \in PipeSuites |->
        IF s \in DOMAIN out
        THEN [gz        |-> out[s],
              release   |-> IF distOutput[s].release = "absent" THEN "absent" ELSE "stale",
              inrelease |-> IF distOutput[s].inrelease = "absent" THEN "absent" ELSE "stale"]
        ELSE distOutput[s]]

\* Phase 2: run_filter_batch debian, then run_filter_batch ubuntu
run_filter_batch ==
    /\ step \in {"filter", "filter ubuntu"}
    /\ LET d == IF step = "filter" THEN "debian" ELSE "ubuntu"
       IN  \E ok \in BOOLEAN, out \in [CachedOf(d) -> {"good", "empty"}] :
              /\ distOutput' = IF ok THEN Filtered(out) ELSE distOutput
              /\ IF step = "filter" /\ ok
                 THEN step' = "filter ubuntu" /\ UNCHANGED <<exitOf, phases, pool>>
                 ELSE /\ EndPhase("filter", IF ok THEN 0 ELSE 1, "gen_release")
                      /\ IF ok THEN /\ Begin("sign")
                                    /\ pool' = [s \in {x \in PipeSuites :
                                                        SuiteDirExists(distOutput'[x])}
                                                |-> "queued"]
                         ELSE UNCHANGED <<phases, pool>>
    /\ UNCHANGED <<cached, signed, ERRORS, uploaded>>
    /\ UNCHANGED <<workerVars, aliasVars, stripVars, signVars>>

\* sign_all.sh phase A: gen_release of one suite directory.  Its last
\* command is an echo, so it returns 0 whether the Release was written or not.
gen_release ==
    /\ step = "gen_release"
    /\ \E j \in DOMAIN pool, written \in BOOLEAN :
          /\ pool[j] = "running"
          /\ pool' = [pool EXCEPT ![j] = "ok"]
          /\ distOutput' = IF written
                           THEN [distOutput EXCEPT ![j].release = "current"]
                           ELSE distOutput
    /\ UNCHANGED <<step, cached, signed, exitOf, ERRORS, uploaded, phases>>
    /\ UNCHANGED <<workerVars, aliasVars, stripVars, signVars>>

\* xargs has waited for every gen_release; phase B begins
JoinGenRelease ==
    /\ step = "gen_release"
    /\ JobsJoined
    /\ IF XargsExit(pool) = 0
       THEN step' = "gpg" /\ UNCHANGED exitOf
       ELSE EndPhase("sign", 1, "gpg")
    /\ UNCHANGED <<cached, distOutput, pool, signed, ERRORS, uploaded, phases>>
    /\ UNCHANGED <<workerVars, aliasVars, stripVars, signVars>>

\* the Release files phase B has not signed yet
ToSign == {s \in PipeSuites : distOutput[s].release # "absent"
                              /\ \A i \in 1..Len(signed) : signed[i] # s}

\* sign_all.sh phase B: gpg --clearsign of the next Release file; the script
\* exits 1 when gpg fails or leaves an empty InRelease
Gpg ==
    /\ step = "gpg"
    /\ ToSign # {}
    /\ \E s \in ToSign, ok \in BOOLEAN :
          /\ signed' = Append(signed, s)
          /\ IF ok
             THEN /\ distOutput' = [distOutput EXCEPT ![s].inrelease = distOutput[s].release]
                  /\ UNCHANGED <<step, exitOf>>
             ELSE /\ EndPhase("sign", 1, "gpg")
                  /\ UNCHANGED distOutput
    /\ UNCHANGED <<cached, pool, ERRORS, uploaded, phases>>
    /\ UNCHANGED <<workerVars, aliasVars, stripVars, signVars>>

\* the loop of phase B is through: sign_all.sh exits 0
SignDone ==
    /\ step = "gpg"
    /\ ToSign = {}
    /\ EndPhase("sign", 0, "cp")
    /\ UNCHANGED <<cached, distOutput, pool, signed, ERRORS, uploaded, phases>>
    /\ UNCHANGED <<workerVars, aliasVars, stripVars, signVars>>

\* cp of index.html and the keyrings into dist_output, and the removal of
\* the uncompressed Packages files; then validate.sh begins
CopyStatic ==
    /\ step = "cp"
    /\ \E ok \in BOOLEAN :
          /\ EndPhase("cp", IF ok THEN 0 ELSE 1, "validate")
          /\ IF ok THEN Begin("validate") ELSE UNCHANGED phases
    /\ UNCHANGED <<cached, distOutput, pool, signed, ERRORS, uploaded>>
    /\ UNCHANGED <<workerVars, aliasVars, stripVars, signVars>>

\* validate.sh: the calls of fail for one suite directory
SuiteErrors(d) ==
    IF ~SuiteDirExists(d) THEN 0
    ELSE (IF d.inrelease # "current" THEN 1 ELSE 0)
         + (IF d.gz # "good" THEN 1 ELSE 0)

RECURSIVE CountErrors(_, _)
CountErrors(tree, suites) ==
    IF suites = {} THEN 0
    ELSE LET s == CHOOSE x \in suites : TRUE
         IN  SuiteErrors(tree[s]) + CountErrors(tree, suites \ {s})

\* validate.sh without its exit 1
ValidateExitAlwaysZero(n) == 0

\* if [[ $ERRORS -gt 0 ]]; then exit 1
ValidateExit(n) == IF n > 0 THEN 1 ELSE 0

validate ==
    /\ step = "validate"
    /\ ERRORS' = CountErrors(distOutput, PipeSuites)
    /\ EndPhase("validate", ValidateExit(ERRORS'), "upload")
    /\ IF ValidateExit(ERRORS') = 0 THEN Begin("upload") ELSE UNCHANGED phases
    /\ UNCHANGED <<cached, distOutput, pool, signed, uploaded>>
    /\ UNCHANGED <<workerVars, aliasVars, stripVars, signVars>>

\* r2_upload.py --dir dist_output: every suite directory, or some of them
\* when it fails on the way
r2_upload ==
    /\ step = "upload"
    /\ LET dirs == {s \in PipeSuites : SuiteDirExists(distOutput[s])}
       IN  \E put \in SUBSET dirs :
              /\ uploaded' = put
              /\ EndPhase("upload", IF put = dirs THEN 0 ELSE 1, "done")
    /\ UNCHANGED <<cached, distOutput, pool, signed, ERRORS, phases>>
    /\ UNCHANGED <<workerVars, aliasVars, stripVars, signVars>>

NextPipe ==
    \/ StartFetch
    \/ StartJob
    \/ do_fetch
    \/ JoinFetch
    \/ run_filter_batch
    \/ gen_release
    \/ JoinGenRelease
    \/ Gpg
    \/ SignDone
    \/ CopyStatic
    \/ validate
    \/ r2_upload

SpecPipe == InitPipe /\ [][NextPipe]_vars

(***************************************************************************)
(* Properties of the worker (Spec).                                        *)
(***************************************************************************)

Done == pc = "done"

ReqRaw    == Raw(req)
ReqDistro == DistroOf(ReqRaw)
ReqParts  == Split(RestOf(ReqRaw), SLASH)

\* the alias table of an ecosystem
AliasTable(d) == IF d = "ubuntu" THEN UBUNTU_SUITE_ALIASES ELSE DEBIAN_SUITE_ALIASES

\* AliasResolver of the design: the table entry, or the suite itself
Codename(d, suite) ==
    IF suite \in DOMAIN AliasTable(d) THEN AliasTable(d)[suite] ELSE suite

\* dists/<suite>/<file>.  Alias resolution maps a non-empty suite to a
\* non-empty suite, so the patterns hold of the path before and after it.
SuiteFilePath(p, f) ==
    Len(p) = 3 /\ p[1] = <<"dists">> /\ p[2] # <<>> /\ p[3] = f

\* dists/<suite>/<component>/binary-<arch>/<file>
ArchFilePath(d, p, f) ==
    /\ Len(p) = 5 /\ p[1] = <<"dists">> /\ p[2] # <<>>
    /\ \E c \in components(d) : p[3] = <<c>>
    /\ \E a \in ARCHES : p[4] = <<"binary-", a>>
    /\ p[5] = f

\* dists/<suite>/.../by-hash/SHA256/<64 hex digits>, "..." not empty
ByHashPath(p) ==
    /\ Len(p) >= 6 /\ p[1] = <<"dists">> /\ p[2] # <<>>
    /\ (Len(p) > 6 \/ p[3] # <<>>)
    /\ p[Len(p) - 2] = <<"by-hash">> /\ p[Len(p) - 1] = <<"SHA256">>
    /\ \E h \in HexDigests : p[Len(p)] = <<h>>

PackagesNames ==
    {<<"Packages">>, <<"Packages", ".gz">>, <<"Packages", ".lz4">>, <<"Packages", ".xz">>}

KnownDistPath(d, p) ==
    \/ \E f \in {<<"Release">>, <<"InRelease">>, <<"Release", ".gpg">>} : SuiteFilePath(p, f)
    \/ \E f \in PackagesNames : ArchFilePath(d, p, f)
    \/ ByHashPath(p)

RecognizedPath(raw, d, p) ==
    \/ raw = <<>>
    \/ raw \in KEYRINGS
    \/ KnownDistPath(d, p)
    \/ ArchFilePath(d, p, <<"Release">>)

LastFetchMissed == Len(fetched) > 0 /\ ~fetched[Len(fetched)].hit

\* C1: a request for a known-dist path whose object is not in the bucket is
\* answered 404 and never redirected; only a path that matches none of the
\* recognized rules is answered 301.
C1_KnownDistMissIsNotFound ==
    Done =>
        /\ KnownDistPath(ReqDistro, ReqParts) => resp.status # 301
        /\ (KnownDistPath(ReqDistro, ReqParts) /\ LastFetchMissed) =>
               (resp.kind = "response" /\ resp.status = 404)
        /\ resp.status = 301 => ~RecognizedPath(ReqRaw, ReqDistro, ReqParts)

\* a by-hash request whose index names an object that is not stored
C1_Witness ==
    /\ Done /\ ByHashPath(ReqParts)
    /\ Len(fetched) = 2 /\ fetched[1].hit /\ ~fetched[2].hit
    /\ resp.status = 404

\* what each branch may answer, decode failures aside
StatusOfRule ==
    [RootIndex |-> {200, 404}, StaticAsset |-> {200, 404}, DerivedSuiteRelease |-> {200, 404},
     SynthesizedArchRelease |-> {200}, DecompressedPackages |-> {200, 404},
     ByHashLookup |-> {200, 404}, VerbatimStored |-> {200, 404}, Redirect |-> {301}]

\* the object read last is stored but does not decode (gzip, JSON)
LastObjectMalformed ==
    /\ Len(fetched) > 0 /\ fetched[Len(fetched)].hit
    /\ LET body == r2Get(bucket, fetched[Len(fetched)].key).body
       IN  IF rule = "DecompressedPackages" THEN ~IsGzip(body)
           ELSE rule = "ByHashLookup" /\ Len(fetched) = 1 /\ ~JsonParse(body).ok

SameRuleAsBefore == (Done /\ prevRule # "") => rule = prevRule

\* C2 as stated: the branch that answers a request is the same whatever the
\* bucket holds, and the bucket only decides between 200 and 404 within it.
C2_Original ==
    /\ SameRuleAsBefore
    /\ Done => (resp.kind = "response" /\ resp.status \in StatusOfRule[rule])

\* C2 amended: the branch that answers a request is the same whatever the
\* bucket holds; within the branch the bucket decides between 200 and 404,
\* or a thrown decode error when the stored object read does not decode.
C2_RuleIndependentOfStorage ==
    /\ SameRuleAsBefore
    /\ Done =>
        \/ resp.kind = "response" /\ resp.status \in StatusOfRule[rule]
        \/ resp.kind = "exception" /\ LastObjectMalformed

\* the same request answered again by the same branch after a republication,
\* this time with a 404
C2_Witness ==
    /\ Done /\ prevRule = "DecompressedPackages" /\ rule = prevRule
    /\ resp.status = 404

RuleNames ==
    <<"RootIndex", "StaticAsset", "DerivedSuiteRelease", "SynthesizedArchRelease",
      "DecompressedPackages", "ByHashLookup", "VerbatimStored", "Redirect">>

\* the rules of the cascade whose own pattern the request matches
MatchingRules ==
    {i \in 1..8 :
        \/ i = 1 /\ ReqRaw = <<>>
        \/ i = 2 /\ ReqRaw \in KEYRINGS
        \/ i = 3 /\ SuiteFilePath(ReqParts, <<"Release">>)
        \/ i = 4 /\ ArchFilePath(ReqDistro, ReqParts, <<"Release">>)
        \/ i = 5 /\ ArchFilePath(ReqDistro, ReqParts, <<"Packages">>)
        \/ i = 6 /\ ByHashPath(ReqParts)
        \/ i = 7 /\ \/ SuiteFilePath(ReqParts, <<"InRelease">>)
                    \/ SuiteFilePath(ReqParts, <<"Release", ".gpg">>)
                    \/ \E f \in PackagesNames : ArchFilePath(ReqDistro, ReqParts, f)
        \/ i = 8}

Earliest(S) == CHOOSE i \in S : \A j \in S : i <= j

\* C3: a request is answered by the earliest rule whose pattern it matches;
\* a plain Packages path, which the known-dist pattern matches too, is
\* answered from the key with ".gz" appended, decompressed, and never from
\* the key without the suffix.
C3_EarliestRuleWins ==
    Done =>
        /\ rule = RuleNames[Earliest(MatchingRules)]
        /\ ArchFilePath(ReqDistro, ReqParts, <<"Packages">>) =>
            /\ {5, 7} \subseteq MatchingRules
            /\ rule = "DecompressedPackages"
            /\ Len(fetched) = 1
            /\ fetched[1].key = R2Key(distro, suitePath) \o <<".gz">>
            /\ resp.status = 200 =>
                   /\ resp.body = Gunzip(bucket[fetched[1].key].body)
                   /\ resp.xDebthin = "hit-decomp"
            /\ ~fetched[1].hit => resp.status = 404

\* plain Packages asked for while only the key without suffix is stored
C3_Witness ==
    /\ Done /\ ArchFilePath(ReqDistro, ReqParts, <<"Packages">>)
    /\ R2Key(distro, suitePath) \in DOMAIN bucket
    /\ resp.status = 404

\* C7: dists/<suite>/<component>/binary-<arch>/Release, component and arch
\* in the ecosystem's lists, is answered 200 with the three lines Archive:
\* <codename>, Component: <component>, Architecture: <arch>, without any
\* read of the bucket.
C7_ArchReleaseSynthesized ==
    (Done /\ ArchFilePath(ReqDistro, ReqParts, <<"Release">>)) =>
        /\ resp.kind = "response" /\ resp.status = 200
        /\ fetched = <<>>
        /\ resp.body = <<"Archive: ", Codename(ReqDistro, ReqParts[2][1]), NL,
                         "Component: ", ReqParts[3][1], NL,
                         "Architecture: ", ReqParts[4][2], NL>>

\* what serving the object under key as it is stored comes to
VerbatimOutcome(key) ==
    /\ resp.kind = "response"
    /\ IF key \in DOMAIN bucket
       THEN resp.status = 200 /\ resp.body = bucket[key].body
       ELSE resp.status = 404

NormalizedPath ==
    IF Len(ReqParts) >= 2 /\ ReqParts[1] = <<"dists">> /\ Len(ReqParts[2]) = 1
    THEN Join([ReqParts EXCEPT ![2] = <<Codename(ReqDistro, ReqParts[2][1])>>], SLASH)
    ELSE RestOf(ReqRaw)

\* the upstream archive of each ecosystem
UpstreamBase ==
    [debian |-> <<"deb.debian.org", SLASH, "debian">>,
     ubuntu |-> <<"archive.ubuntu.com", SLASH, "ubuntu">>]

\* C12: a request classified as Redirect is answered 301 with the target
\* <inbound scheme>//<upstream of the ecosystem>/<relative path><query>.
C12_RedirectTarget ==
    (Done /\ rule = "Redirect") =>
        /\ resp.kind = "response" /\ resp.status = 301
        /\ resp.location = <<req.scheme, "//">> \o UpstreamBase[ReqDistro] \o <<SLASH>>
                            \o NormalizedPath \o req.search

\* every stored compressed file is a gzip stream, every index a JSON object
WellFormedStorage ==
    \A k \in DOMAIN bucket :
        /\ EndsWith(k, ".gz") => IsGzip(bucket[k].body)
        /\ EndsWith(k, "by-hash-index") => JsonParse(bucket[k].body).ok

Responded ==
    /\ (Done /\ WellFormedStorage) =>
           (resp.kind = "response" /\ resp.status \in {200, 404, 301})
    /\ (Done /\ ~RecognizedPath(ReqRaw, ReqDistro, ReqParts)) =>
           (resp.kind = "response" /\ resp.status = 301 /\ fetched = <<>>)
    /\ ~Done => resp = NoResponse

\* C13: every request, whatever the path, is answered, and answered once;
\* when the stored objects are well formed the answer is a 200, a 404 or a
\* 301; a path that matches none of the recognized rules is answered 301
\* without any read of the bucket.
C13_EveryRequestAnswered ==
    /\ []Responded
    /\ [][resp # NoResponse => resp' = resp]_vars
    /\ (pc = "recv") ~> Done

\* an unrecognized path under dists/ of a well-formed tree, redirected
C13_Witness ==
    /\ Done /\ WellFormedStorage /\ KeyPackagesGz \in DOMAIN bucket
    /\ ReqParts = <<Seg("dists"), Seg("trixie"), Seg("Contents")>>
    /\ resp.status = 301 /\ fetched = <<>>

\* the key a plain Packages request is decompressed from
GzKey == R2Key(ReqDistro, NormalizedPath) \o <<".gz">>

CorruptGzStored == GzKey \in DOMAIN bucket /\ ~IsGzip(bucket[GzKey].body)

\* C14: a plain Packages request whose '.gz' object is stored but is not a
\* gzip stream ends in a decode failure: no response is returned, so it is
\* neither a 404, nor a 200 with some or no content, nor a redirect.
C14_CorruptGzipFails ==
    (Done /\ ArchFilePath(ReqDistro, ReqParts, <<"Packages">>) /\ CorruptGzStored) =>
        /\ resp.kind = "exception"
        /\ resp.status \notin {200, 404, 301}
        /\ resp.location = <<>>
        /\ fetched = <<[key |-> GzKey, hit |-> TRUE]>>

\* plain Packages asked for under an alias while the stored stream is cut short
C14_Witness ==
    /\ Done /\ ArchFilePath(ReqDistro, ReqParts, <<"Packages">>) /\ CorruptGzStored
    /\ ReqParts[2] = <<"stable">>
    /\ resp.kind = "exception"

\* C15 (SpecPrefix): a path whose first segment is not an ecosystem gets,
\* under any bucket, the response the same path gets under /debian/: same
\* status, body, headers and redirect target.
C15_PrefixOptional ==
    (Done /\ others # <<>>) => resp = others[1].resp

\* C16: a request whose path is empty once the leading "/" and an ecosystem
\* prefix are taken off (/, /debian, /debian/, /ubuntu, /ubuntu/) is
\* answered as the root index: 200 with the stored index page, 404 when it
\* is not stored, never a redirect.
C16_EmptyPathIsRootIndex ==
    (Done /\ RestOf(ReqRaw) = <<>>) =>
        /\ rule = "RootIndex"
        /\ resp.kind = "response" /\ resp.status # 301
        /\ IF KeyIndexHtml \in DOMAIN bucket
           THEN resp.status = 200 /\ resp.body = bucket[KeyIndexHtml].body
           ELSE resp.status = 404

FetchesOfRule ==
    [RootIndex |-> {1}, StaticAsset |-> {1}, DerivedSuiteRelease |-> {1},
     SynthesizedArchRelease |-> {0}, DecompressedPackages |-> {1},
     ByHashLookup |-> {1, 2}, VerbatimStored |-> {1}, Redirect |-> {0}]

\* the first read got the suite's index, and the index has the digest asked for
IndexHasDigest ==
    /\ Len(fetched) >= 1 /\ fetched[1].hit
    /\ EndsWith(fetched[1].key, "by-hash-index")
    /\ JsonParse(bucket[fetched[1].key].body).ok
    /\ ReqParts[Len(ReqParts)][1] \in DOMAIN JsonParse(bucket[fetched[1].key].body).map

\* C17: an arch Release and a redirect read nothing from the bucket; the
\* root index, a keyring, a suite Release, plain Packages and a verbatim
\* file read exactly once; a by-hash lookup reads the index first and then
\* at most one object, and that only when the index was there and has the
\* digest; no key is read twice for one request.
C17_FetchDiscipline ==
    /\ Done => Len(fetched) \in FetchesOfRule[rule]
    /\ \A i, j \in 1..Len(fetched) : i # j => fetched[i].key # fetched[j].key
    /\ Len(fetched) = 2 =>
           /\ ByHashPath(ReqParts) /\ pc = "done"
           /\ IndexHasDigest
    /\ pc = "byHashObject" => (Len(fetched) = 1 /\ IndexHasDigest)
    /\ (Done /\ rule = "ByHashLookup") =>
           /\ EndsWith(fetched[1].key, "by-hash-index")
           /\ Len(fetched) = 1 => ~IndexHasDigest

\* a by-hash lookup that stops after the index, which has no such digest
C17_Witness ==
    /\ Done /\ rule = "ByHashLookup"
    /\ Len(fetched) = 1 /\ fetched[1].hit /\ resp.status = 404

\* the kind of outcome of each rule that can answer 200
KindOfRule ==
    [RootIndex |-> "verbatim", StaticAsset |-> "verbatim", VerbatimStored |-> "verbatim",
     DerivedSuiteRelease |-> "derived", SynthesizedArchRelease |-> "synthesized",
     DecompressedPackages |-> "decompressed", ByHashLookup |-> "index-resolved"]

\* the X-Debthin values of serveR2, the suite Release branch, the arch
\* Release branch and serveDecompressed
TagOfKind ==
    [verbatim |-> "hit", derived |-> "hit-derived", synthesized |-> "hit-generated",
     decompressed |-> "hit-decomp"]

\* C18: every 200 response, of the root index and of a by-hash resolution
\* too, carries Cache-Control: public, max-age=3600 and an X-Debthin tag,
\* and the tag tells the outcome kinds verbatim, derived, synthesized,
\* decompressed and index-resolved apart: it is never the tag of another
\* kind than the response's own.
C18_SuccessHeaders ==
    (Done /\ resp.kind = "response" /\ resp.status = 200) =>
        /\ resp.cacheControl = "public, max-age=3600"
        /\ resp.xDebthin # NoHeader
        /\ \A k \in DOMAIN TagOfKind :
               k # KindOfRule[rule] => resp.xDebthin # TagOfKind[k]

\* C19: an object served by the root index, a static asset, a verbatim
\* stored file or a by-hash resolution has the content type it was stored
\* with when it has one, and otherwise the type its key's extension gives.
C19_DeclaredContentType ==
    (Done /\ resp.kind = "response" /\ resp.status = 200
          /\ rule \in {"RootIndex", "StaticAsset", "VerbatimStored", "ByHashLookup"}) =>
        LET key == fetched[Len(fetched)].key
            obj == bucket[key]
        IN  resp.contentType = IF obj.contentType # NoHeader THEN obj.contentType
                               ELSE contentType(key)

(***************************************************************************)
(* Properties of concurrent invocations (SpecConc).                        *)
(***************************************************************************)

\* the request that ran last was processed alone, after the concurrent ones
ReplayedAlone == Done /\ Len(others) = MaxOthers + 1

\* C20: requests are independent.  No step of a handler changes the bucket,
\* and when requests are processed concurrently, their reads of the bucket
\* interleaved in any order, each of them gets the response it gets when it
\* is processed alone; a request that is repeated gets the same response.
C20_RequestsIndependent ==
    /\ [](ReplayedAlone =>
             \A i \in 1..Len(others) : others[i].req = req => others[i].resp = resp)
    /\ [][bucket' = bucket]_vars

\* a by-hash request that found its object while another by-hash request,
\* whose digest the index does not have, was in flight, and got the same
\* answer alone
C20_Witness ==
    /\ ReplayedAlone
    /\ req = ConcRequest(6) /\ resp.status = 200 /\ Len(fetched) = 2
    /\ \E i, j \in 1..Len(others) :
          /\ others[i].req = req /\ others[i].resp = resp
          /\ others[j].req = ConcRequest(7) /\ others[j].resp.status = 404

(***************************************************************************)
(* Properties of the rebuild script (SpecPipe).                            *)
(***************************************************************************)

PhaseOrder == <<"fetch", "filter", "sign", "validate", "upload">>

Ended(phase) == phase \in DOMAIN exitOf

\* a command of the script has exited non-zero
SomePhaseFailed == \E p \in DOMAIN exitOf : exitOf[p] # 0

\* C21: the phases of the rebuild run in the order fetch, filter, sign,
\* validate, upload, each beginning only when the one before has ended with
\* status 0: filtering begins only when every fetch job has been joined,
\* no Release is signed before every gen_release job has ended, and the
\* upload begins only when validate.sh has counted zero errors.  When
\* validation counts an error, or a phase before the upload exits non-zero,
\* the run is aborted and nothing is, or will be, uploaded.
C21_PhasesInOrder ==
    /\ Len(phases) <= Len(PhaseOrder)
    /\ \A i \in 1..Len(phases) : phases[i] = PhaseOrder[i]
    /\ \A i \in 2..Len(phases) : Ended(phases[i - 1]) /\ exitOf[phases[i - 1]] = 0
    /\ Ended("fetch") => step # "fetch"
    /\ step \in {"filter", "filter ubuntu"} => (JobsJoined /\ DOMAIN pool = PipeSuites)
    /\ (step = "fetch" \/ step = "start") => distOutput \in [PipeSuites -> {NoSuiteDir, OldSuiteDir}]
    /\ signed # <<>> => (JobsJoined /\ DOMAIN pool = {s \in PipeSuites : SuiteDirExists(distOutput[s])})
    /\ (step \in {"upload", "done"} \/ uploaded # {} \/ Ended("upload")) =>
           /\ Ended("validate") /\ ERRORS = 0
           /\ ERRORS = CountErrors(distOutput, PipeSuites)
           /\ \A p \in {"fetch", "filter", "sign", "cp", "validate"} :
                  Ended(p) /\ exitOf[p] = 0
    /\ (ERRORS > 0 \/ \E p \in DOMAIN exitOf \ {"upload"} : exitOf[p] # 0) =>
           (step = "aborted" /\ uploaded = {})
    /\ SomePhaseFailed => step = "aborted"

\* a tree signed and staged, in which validate.sh counted an error: the
\* run stopped with the four phases before the upload begun, nothing uploaded
C21_Witness ==
    /\ step = "aborted" /\ ERRORS > 0 /\ uploaded = {}
    /\ phases = <<"fetch", "filter", "sign", "validate">>
    /\ Ended("sign") /\ exitOf["sign"] = 0 /\ signed # <<>>

(***************************************************************************)
(* Properties of signing and stripping together (SpecRound).               *)
(***************************************************************************)

\* C22: the Release file gen_release writes begins with the line
\* Origin: debthin, has no line that begins with the signature marker and
\* ends with exactly one newline; inReleaseToRelease of the clear-signed
\* InRelease made of it is that Release file, token for token.  And
\* inReleaseToRelease of what inReleaseToRelease returned is the same text.
C22_SignStripRoundTrip ==
    /\ releaseFile # <<>> =>
           /\ SubSeq(releaseFile, 1, 3) = <<ORIGIN, " debthin", NL>>
           /\ \A i \in 1..Len(releaseFile) : releaseFile[i] # PGP_SIG
           /\ EndsWith(releaseFile, NL) /\ releaseFile[Len(releaseFile) - 1] # NL
           /\ text # releaseFile
           /\ Len(release) >= 1 => release[1] = releaseFile
    /\ Len(release) = 2 => release[2] = release[1]

\* a Release with an optional field and checksum lines, signed, stripped
\* back to itself, and stripped once more
C22_Witness ==
    /\ releaseFile \in ReleaseTexts
    /\ \E i \in 1..Len(releaseFile) : releaseFile[i] = "Version: "
    /\ releaseFile[Len(releaseFile) - 1] = "main/binary-amd64/Release"
    /\ Len(text) > Len(releaseFile)
    /\ release = <<releaseFile, releaseFile>>

(***************************************************************************)
(* Properties of a by-hash request during republication (SpecRace).        *)
(***************************************************************************)

\* C23: when a by-hash request for a digest is answered 200, the body is
\* an object with that digest, also when the pipeline replaces the suite's
\* index and the object at the resolved path between the two reads of the
\* request.
C23_ByHashRaceFree ==
    (Done /\ rule = "ByHashLookup" /\ resp.kind = "response" /\ resp.status = 200) =>
        /\ resp.body \in DOMAIN HexDigestOf
        /\ HexDigestOf[resp.body] = ReqParts[Len(ReqParts)][1]

(***************************************************************************)
(* Properties of resolveAliases (SpecAlias).                               *)
(***************************************************************************)

Resolved == Len(aliasOut) >= 1

\* the input is dists/<suite> or dists/<suite>/...
InputHasSuite(suite) ==
    /\ Len(aliasIn.path) >= 3
    /\ SubSeq(aliasIn.path, 1, 3) = <<"dists", SLASH, suite>>
    /\ (Len(aliasIn.path) > 3 => aliasIn.path[4] = SLASH)

InputTail == SubSeq(aliasIn.path, 4, Len(aliasIn.path))

\* C4: for every alias a -> c of the ecosystem's table, dists/a/... resolves
\* to dists/c/... and dists/c/... to itself, so that resolving the result
\* again changes nothing.
C4_AliasesResolveToCodenames ==
    \A a \in DOMAIN AliasTable(aliasIn.distro) :
        LET c == AliasTable(aliasIn.distro)[a] IN
        /\ (Resolved /\ InputHasSuite(a)) =>
               aliasOut[1] = <<"dists", SLASH, c>> \o InputTail
        /\ (Resolved /\ InputHasSuite(c)) => aliasOut[1] = aliasIn.path
        /\ (Len(aliasOut) = 2 /\ (InputHasSuite(a) \/ InputHasSuite(c))) =>
               aliasOut[2] = aliasOut[1]

\* an Ubuntu alias resolved, and the result resolved again
C4_Witness ==
    /\ Len(aliasOut) = 2
    /\ aliasIn.distro = "ubuntu" /\ InputHasSuite("lts-updates")
    /\ aliasOut[1] = <<"dists", SLASH, "noble-updates">> \o InputTail
    /\ aliasOut[2] = aliasOut[1]

\* C5: a path whose suite segment is not a key of the ecosystem's alias
\* table comes back from resolveAliases unchanged, whatever the segment is.
C5_UnmappedPassesThrough ==
    \A s \in AliasSuites \ DOMAIN AliasTable(aliasIn.distro) :
        (Resolved /\ InputHasSuite(s)) => aliasOut[1] = aliasIn.path

\* C6: resolveAliases changes nothing but segment 1, and that only when
\* segment 0 is "dists"; the number of segments stays the same.
C6_OnlySuiteSegmentChanges ==
    Resolved =>
        LET in  == Split(aliasIn.path, SLASH)
            out == Split(aliasOut[1], SLASH)
        IN  /\ Len(out) = Len(in)
            /\ \A k \in 1..Len(in) : k # 2 => out[k] = in[k]
            /\ in[1] # <<"dists">> => aliasOut[1] = aliasIn.path

\* the suite segment is replaced and the same alias further down is kept
C6_Witness ==
    /\ Resolved
    /\ aliasIn = [distro |-> "debian",
                  path |-> <<"dists", SLASH, "stable", SLASH, "stable", SLASH, "lts">>]
    /\ aliasOut[1] = <<"dists", SLASH, "trixie", SLASH, "stable", SLASH, "lts">>

(***************************************************************************)
(* Properties of the signing scripts against the worker (SpecSign).        *)
(***************************************************************************)

\* the path the worker is asked for when a client fetches a manifest entry
RequestFor(path) ==
    <<distDir.distro, SLASH, "dists", SLASH, distDir.suite, SLASH>> \o path

\* C8: the bytes the scripts checksum for a per-arch Release entry are the
\* body the worker synthesizes for that path, for every component, in
\* sign_all.sh and in sign.sh.
C8_ArchReleaseMatchesWorker ==
    \A i \in 1..Len(manifest) :
        manifest[i].kind = "archRelease" =>
            LET raw == RequestFor(manifest[i].path) IN
            /\ Branch(raw) = "archRelease"
            /\ manifest[i].sha256 = Sha256(archReleaseBody(SuitePathOf(raw)))
            /\ manifest[i].size = ByteLen(archReleaseBody(SuitePathOf(raw)))

\* C9: the bytes and the byte count gen_release of sign_all.sh records for
\* <component>/binary-<arch>/Packages are those of the body the worker
\* serves for that path from the same Packages.gz.
C9_DecompressedMatchesWorker ==
    \A i \in 1..Len(manifest) :
        (script = "sign_all" /\ manifest[i].kind = "raw") =>
            LET f      == distDir.files[manifest[i].file]
                raw    == RequestFor(manifest[i].path)
                key    == R2Key(DistroOf(raw), SuitePathOf(raw)) \o <<".gz">>
                served == serveDecompressed(key :> Object(f.gz, ""), key)
            IN  /\ Branch(raw) = "plainPackages"
                /\ key = RequestFor(Rel(f))
                /\ served.status = 200
                /\ manifest[i].sha256 = Sha256(served.body)
                /\ manifest[i].size = ByteLen(served.body)

(***************************************************************************)
(* Properties of inReleaseToRelease (SpecStrip).                           *)
(***************************************************************************)

LineStart(t, i) == i = 1 \/ t[i - 1] = NL

\* position of the first line of t that begins with tok, 0 if there is none
FirstLineWith(t, tok) ==
    LET S == {i \in 1..Len(t) : t[i] = tok /\ LineStart(t, i)}
    IN  IF S = {} THEN 0 ELSE CHOOSE i \in S : \A j \in S : i <= j

HasLineWith(t, tok) == FirstLineWith(t, tok) > 0

\* t without the white space at its end
WithoutTrailingSpace(t) ==
    LET K == {i \in 1..Len(t) : t[i] \notin WhiteSpace}
    IN  IF K = {} THEN <<>> ELSE SubSeq(t, 1, CHOOSE i \in K : \A j \in K : j <= i)

\* the lines of t from the first Origin: line up to the first signature line
OriginToSignature(t) ==
    LET from == FirstLineWith(t, ORIGIN)
        sig  == FirstLineWith(t, PGP_SIG)
        to   == IF sig = 0 THEN Len(t) ELSE sig - 2
    IN  IF to < from THEN <<>> ELSE SubSeq(t, from, to)

ExpectedRelease(t) == WithoutTrailingSpace(OriginToSignature(t)) \o <<NL>>

EndsWithOneNewline(b) ==
    /\ Len(b) >= 1 /\ b[Len(b)] = NL
    /\ Len(b) >= 2 => b[Len(b) - 1] # NL

Stripped == release # <<>>

\* C10 as stated: for every stored text the derived Release is the lines
\* from the first Origin: line to the first signature line, trimmed, plus one
\* newline; it ends with exactly one newline and holds neither the
\* clear-sign header nor the signature block.
C10_Original ==
    Stripped =>
        /\ HasLineWith(text, ORIGIN) => release[1] = ExpectedRelease(text)
        /\ EndsWithOneNewline(release[1])
        /\ ~HasLineWith(release[1], PGP_BEGIN)
        /\ ~HasLineWith(release[1], PGP_SIG)

\* C10 amended: for every stored text with a line beginning with Origin: the
\* derived Release is the lines from the first such line to the first
\* signature line, trimmed, plus one newline; it ends with exactly one
\* newline, holds no signature line, and holds a clear-sign header line only
\* if the text has one after its first Origin: line.  A text without an
\* Origin: line is returned unchanged.
C10_StripsWrapper ==
    Stripped =>
        IF ~HasLineWith(text, ORIGIN) THEN release[1] = text
        ELSE /\ release[1] = ExpectedRelease(text)
             /\ EndsWithOneNewline(release[1])
             /\ ~HasLineWith(release[1], PGP_SIG)
             /\ HasLineWith(release[1], PGP_BEGIN) =>
                    \E i \in (FirstLineWith(text, ORIGIN) + 1)..Len(text) :
                        text[i] = PGP_BEGIN /\ LineStart(text, i)

\* a clear-signed text: header, payload, signature
C10_Witness ==
    /\ Stripped
    /\ text = <<PGP_BEGIN, NL, ORIGIN, NL, PGP_SIG>>
    /\ release[1] = <<ORIGIN, NL>>

====
